---- MODULE Spec2Model ----
(***************************************************************************)
(* MINDYARD layer 1: the intent router (LLM path and keyword fallback),    *)
(* the response nodes and the accumulating user profiler.                  *)
(*                                                                         *)
(* Python strings are sequences of Unicode code points, so that the        *)
(* substring test `kw in input_text` and str.lower() are computed on the   *)
(* characters.  The confidences of the router are quotients of small       *)
(* integers, kept as reduced fractions <<num, den>>; the ratios the        *)
(* profiler compares are binary64 floats.                                  *)
(***************************************************************************)
EXTENDS Integers, Sequences, FiniteSets, TLC

VARIABLES
    router_provider,  \* IntentRouter._provider: the cached FAST handle, or None
    cls,              \* the last completed IntentRouter.classify call
    node,             \* the last completed response-node call
    clock,            \* datetime.now(timezone.utc), in hours
    ticks,            \* the steps the clock has made
    users,            \* the users table: id -> [profile_data]
    raw_logs,         \* the raw_logs table, in the order of insertion
    runs,             \* the UserProfiler.build_and_save calls
    fn                \* the last completed call of a single function

vars == <<router_provider, cls, node, clock, ticks, users, raw_logs, runs, fn>>

None == "None"

(***************************************************************************)
(* Bounds of the model.                                                    *)
(***************************************************************************)
MaxParts == 2        \* an input text is made of at most this many fragments
MaxLogs == 2         \* the raw_logs table holds at most this many rows
MaxTicks == 1        \* the clock makes at most this many steps
MaxFew == 2          \* a short history holds at most this many entries
MaxNear == 1         \* a long history misses or exceeds the query limit by at most this
MaxEntries == 3      \* a list of logs given to an aggregation holds at most this many
MaxPosts == 15       \* a list of logs given to the posting pattern holds at most this many
MaxFatigued == 6     \* at most this many entries of a list tell of fatigue
MaxPlain == 2        \* at most this many entries follow the fatigued ones
MaxStates == 11      \* at most this many entries at the head of a list carry the state intent
MaxOthers == 21      \* at most this many entries without the state intent follow them
MaxBeyond == 2       \* at most this many entries with the state intent end a list
MaxSummary == 4      \* a list of logs given to the summary holds at most this many
MaxKeywords == 2     \* a text holds keywords among the first this many of a category
MaxTotal == 10       \* the emotions of one window of a compared pair number at most this
MaxBucket == 6       \* the entries with an emotion in one bucket of a list number at most this
MaxSparse == 1       \* the other bucket of such a list holds at most this many

(***************************************************************************)
(* Generic helpers.                                                        *)
(***************************************************************************)
Min(a, b) == IF a <= b THEN a ELSE b
Max(a, b) == IF a >= b THEN a ELSE b

RECURSIVE GCD(_, _)
GCD(a, b) == IF b = 0 THEN a ELSE GCD(b, a % b)

\* the float n/d (d > 0) as a reduced fraction
Frac(n, d) ==
    LET a == IF n < 0 THEN -n ELSE n
        g == GCD(a, d)
    IN  <<n \div g, d \div g>>

FracLE(x, y) == x[1] * y[2] <= y[1] * x[2]
FracMin(x, y) == IF FracLE(y, x) /\ x # y THEN y ELSE x   \* Python min(x, y)
FracMax(x, y) == IF FracLE(x, y) /\ x # y THEN y ELSE x   \* Python max(x, y)

RECURSIVE SumSeq(_)
SumSeq(s) == IF s = <<>> THEN 0 ELSE Head(s) + SumSeq(Tail(s))

\* Python `sub in text` for strings
Contains(sub, text) ==
    \E i \in 1..(Len(text) - Len(sub) + 1) :
        SubSeq(text, i, i + Len(sub) - 1) = sub

\* Python str.lower() on the ASCII letters
Lower(s) == [i \in DOMAIN s |-> IF s[i] \in 65..90 THEN s[i] + 32 ELSE s[i]]

(***************************************************************************)
(* Python floats are IEEE 754 binary64 numbers, every operation rounded to *)
(* the nearest, ties to even.  A float is its sign and, for a non-zero     *)
(* magnitude, the 53 bits of the significand (hi: the upper 26, lo: the    *)
(* lower 27) with the exponent of the last bit: |x| = (hi * 2^27 + lo) *   *)
(* 2^exp.  Zero has hi = lo = 0.  The values met here are far from         *)
(* overflow and underflow.                                                 *)
(***************************************************************************)
SignificandBits == 53
LowBits == 27
DigitBits == 24       \* sums are worked out in digits of this many bits
QuotientBits == 80     \* fraction bits of a quotient worked out before rounding

RECURSIVE Pow2(_)
Pow2(k) == IF k = 0 THEN 1 ELSE 2 * Pow2(k - 1)

\* 2^k mod b, by squaring
RECURSIVE Pow2Mod(_, _)
Pow2Mod(k, b) ==
    IF k = 0 THEN 1 % b
    ELSE LET h == Pow2Mod(k \div 2, b)
         IN  (((h * h) % b) * (IF k % 2 = 1 THEN 2 ELSE 1)) % b

Zeros(n) == [i \in 1..n |-> 0]

\* the n bits of v, the most significant first
IntBits(v, n) == [i \in 1..n |-> (v \div Pow2(n - i)) % 2]

\* the number written by at most 30 bits
BitsInt(bits) ==
    SumSeq([i \in DOMAIN bits |-> bits[i] * Pow2(Len(bits) - i)])

\* the bits without their leading zeros
StripZeros(bits) ==
    LET ones == {i \in DOMAIN bits : bits[i] = 1}
    IN  IF ones = {} THEN <<>>
        ELSE SubSeq(bits, CHOOSE i \in ones : \A j \in ones : i <= j, Len(bits))

\* bits + 1, one bit longer when every bit is 1
Increment(bits) ==
    LET zeros == {i \in DOMAIN bits : bits[i] = 0}
    IN  IF zeros = {} THEN <<1>> \o Zeros(Len(bits))
        ELSE LET last == CHOOSE i \in zeros : \A j \in zeros : j <= i
             IN  [i \in DOMAIN bits |->
                     IF i < last THEN bits[i] ELSE IF i = last THEN 1 ELSE 0]

FloatZero == [neg |-> FALSE, exp |-> 0, hi |-> 0, lo |-> 0]

IsZero(x) == x.hi = 0 /\ x.lo = 0

\* the float of the significand bits (53 of them, the first being 1)
Pack(neg, bits, e) ==
    [neg |-> neg, exp |-> e,
     hi |-> BitsInt(SubSeq(bits, 1, SignificandBits - LowBits)),
     lo |-> BitsInt(SubSeq(bits, SignificandBits - LowBits + 1, SignificandBits))]

\* the significand bits of a non-zero float
Unpack(x) ==
    IntBits(x.hi, SignificandBits - LowBits) \o IntBits(x.lo, LowBits)

\* the float nearest to bits * 2^e (plus a non-zero rest below the last
\* bit when sticky), ties to even
RoundNearestEven(neg, bits, e, sticky) ==
    LET sig == StripZeros(bits)
        n == Len(sig)
    IN  IF n = 0 THEN FloatZero
        ELSE IF n <= SignificandBits
        THEN Pack(neg, sig \o Zeros(SignificandBits - n), e - (SignificandBits - n))
        ELSE LET keep == SubSeq(sig, 1, SignificandBits)
                 guard == sig[SignificandBits + 1]
                 rest == sticky \/ \E i \in (SignificandBits + 2)..n : sig[i] = 1
                 up == guard = 1 /\ (rest \/ keep[SignificandBits] = 1)
                 rounded == IF up THEN Increment(keep) ELSE keep
             IN  IF Len(rounded) > SignificandBits
                 THEN Pack(neg, SubSeq(rounded, 1, SignificandBits),
                           e + (n - SignificandBits) + 1)
                 ELSE Pack(neg, rounded, e + (n - SignificandBits))

\* the float a / b of two ints, a >= 0, b > 0
FloatDiv(a, b) ==
    LET q == a \div b
        r == a % b
        whole == IntBits(q, 30)
        fraction == [k \in 1..QuotientBits |->
                        (2 * ((r * Pow2Mod(k - 1, b)) % b)) \div b]
        sticky == (r * Pow2Mod(QuotientBits, b)) % b # 0
    IN  RoundNearestEven(FALSE, whole \o fraction, -QuotientBits, sticky)

\* the digits, in base 2^DigitBits, of a bit string, the most significant
\* first
Digits(bits) ==
    LET count == (Len(bits) + DigitBits - 1) \div DigitBits
        padded == Zeros(count * DigitBits - Len(bits)) \o bits
    IN  [k \in 1..count |->
            BitsInt(SubSeq(padded, (k - 1) * DigitBits + 1, k * DigitBits))]

\* the bit string of the digits
DigitsBits(digits) ==
    [i \in 1..(Len(digits) * DigitBits) |->
        (digits[(i - 1) \div DigitBits + 1]
            \div Pow2(DigitBits - 1 - ((i - 1) % DigitBits))) % 2]

\* a + b + carry on the digits 1..i of two digit strings of one length
RECURSIVE AddDigits(_, _, _, _)
AddDigits(a, b, i, carry) ==
    IF i = 0 THEN <<carry>>
    ELSE LET t == a[i] + b[i] + carry
         IN  Append(AddDigits(a, b, i - 1, t \div Pow2(DigitBits)),
                    t % Pow2(DigitBits))

\* a - b - borrow on the digits 1..i of two digit strings of one length,
\* a >= b
RECURSIVE SubDigits(_, _, _, _)
SubDigits(a, b, i, borrow) ==
    IF i = 0 THEN <<>>
    ELSE LET t == a[i] - b[i] - borrow
         IN  Append(SubDigits(a, b, i - 1, IF t < 0 THEN 1 ELSE 0),
                    IF t < 0 THEN t + Pow2(DigitBits) ELSE t)

\* the sum and the difference (a >= b) of two bit strings of one length
AddBits(a, b) ==
    DigitsBits(AddDigits(Digits(a), Digits(b), Len(Digits(a)), 0))

SubBits(a, b) ==
    DigitsBits(SubDigits(Digits(a), Digits(b), Len(Digits(a)), 0))

\* the bits of |x| with the exponent of the last bit lowered to low
Aligned(x, low) == IF IsZero(x) THEN <<>> ELSE Unpack(x) \o Zeros(x.exp - low)

PadTo(bits, n) == Zeros(n - Len(bits)) \o bits

\* |x| < |y|
MagnitudeLess(x, y) ==
    IF IsZero(y) THEN FALSE
    ELSE IF IsZero(x) THEN TRUE
    ELSE IF x.exp # y.exp THEN x.exp < y.exp
    ELSE IF x.hi # y.hi THEN x.hi < y.hi
    ELSE x.lo < y.lo

\* x < y
FloatLess(x, y) ==
    IF IsZero(x) /\ IsZero(y) THEN FALSE
    ELSE IF x.neg /\ ~IsZero(x)
         THEN IF y.neg /\ ~IsZero(y) THEN MagnitudeLess(y, x) ELSE TRUE
         ELSE IF y.neg /\ ~IsZero(y) THEN FALSE ELSE MagnitudeLess(x, y)

\* the float x + y
FloatAdd(x, y) ==
    IF IsZero(x) THEN y
    ELSE IF IsZero(y) THEN x
    ELSE LET low == Min(x.exp, y.exp)
             width == Max(Len(Aligned(x, low)), Len(Aligned(y, low)))
             xs == PadTo(Aligned(x, low), width)
             ys == PadTo(Aligned(y, low), width)
         IN  IF x.neg = y.neg
             THEN RoundNearestEven(x.neg, AddBits(xs, ys), low, FALSE)
             ELSE IF MagnitudeLess(x, y)
             THEN RoundNearestEven(y.neg, SubBits(ys, xs), low, FALSE)
             ELSE RoundNearestEven(x.neg, SubBits(xs, ys), low, FALSE)

FloatNeg(x) == [x EXCEPT !.neg = ~x.neg]

\* the float x - y
FloatSub(x, y) == FloatAdd(x, FloatNeg(y))

\* the float x * 0.5 (exact)
FloatHalf(x) == IF IsZero(x) THEN x ELSE [x EXCEPT !.exp = x.exp - 1]

\* the float x * 1.5: x + x / 2 is the exact product
FloatOneAndHalf(x) == FloatAdd(x, FloatHalf(x))

(***************************************************************************)
(* app.schemas.conversation.ConversationIntent, in its iteration order.    *)
(***************************************************************************)
CHAT == "chat"
EMPATHY == "empathy"
KNOWLEDGE == "knowledge"
DEEP_DIVE == "deep_dive"
BRAINSTORM == "brainstorm"
STATE_INTENT == "state"

ConversationIntent == <<CHAT, EMPATHY, KNOWLEDGE, DEEP_DIVE, BRAINSTORM, STATE_INTENT>>

Intents == {ConversationIntent[i] : i \in DOMAIN ConversationIntent}

(***************************************************************************)
(* _KEYWORD_MAP: the keyword lists of the rule-based classification.       *)
(***************************************************************************)
KW_empathy ==
    << <<12388, 12425, 12356>>,
       <<12375, 12435, 12393, 12356>>,
       <<30130, 12428, 12383>>,
       <<23244, 12384>>,
       <<12402, 12393, 12356>>,
       <<24754, 12375, 12356>>,
       <<19981, 23433>>,
       <<24598, 12356>>,
       <<23490, 12375, 12356>>,
       <<12452, 12521, 12452, 12521>>,
       <<12512, 12459, 12388, 12367>>,
       <<26368, 24746>>,
       <<32862, 12356, 12390>>,
       <<21520, 12365, 20986, 12375>>,
       <<24858, 30196>>,
       <<12383, 12417, 24687>> >>

KW_knowledge ==
    << <<25945, 12360, 12390>>,
       <<30693, 12426, 12383, 12356>>,
       <<12392, 12399>>,
       <<12387, 12390, 20309>>,
       <<12391, 12377, 12363>>,
       <<36949, 12356, 12399>>,
       <<26041, 27861, 12399>>,
       <<12420, 12426, 26041>>,
       <<35519, 12409>>,
       <<26908, 32034>>,
       <<21442, 32771>>,
       <<25991, 29486>>,
       <<35542, 25991>>,
       <<12487, 12540, 12479>> >>

KW_deep_dive ==
    << <<12393, 12358, 12377, 12428, 12400>>,
       <<35299, 27770>>,
       <<25913, 21892>>,
       <<23550, 31574>>,
       <<21839, 38988>>,
       <<21407, 22240>>,
       <<12394, 12380>>,
       <<35506, 38988>>,
       <<22256, 12387, 12390>>,
       <<12358, 12414, 12367, 12356, 12363, 12394, 12356>>,
       <<20998, 26512>>,
       <<26908, 35342>>,
       <<25972, 29702, 12375, 12383, 12356>>,
       <<28145, 25496, 12426>> >>

KW_brainstorm ==
    << <<12450, 12452, 12487, 12450>>,
       <<26696>>,
       <<12402, 12425, 12417, 12365>>,
       <<24605, 12356, 12388, 12365>>,
       <<20206, 35500>>,
       <<22721, 25171, 12385>>,
       <<12502, 12524, 12473, 12488>>,
       <<30330, 24819>>,
       <<12418, 12375>>,
       <<21487, 33021, 24615>>,
       <<26032, 12375, 12356>>,
       <<35430, 12375, 12383, 12356>>,
       <<12393, 12358, 12384, 12429, 12358>>,
       <<22916, 24819>> >>

_KEYWORD_MAP ==
    [intent \in {EMPATHY, KNOWLEDGE, DEEP_DIVE, BRAINSTORM} |->
        CASE intent = EMPATHY -> KW_empathy
          [] intent = KNOWLEDGE -> KW_knowledge
          [] intent = DEEP_DIVE -> KW_deep_dive
          [] intent = BRAINSTORM -> KW_brainstorm]

(***************************************************************************)
(* Input texts: concatenations of at most MaxParts fragments.              *)
(***************************************************************************)
Filler == <<20170, 26085, 12399>>
Question == <<25945, 12360, 12390, 12289, 12392, 12399, 20309, 12391, 12377, 12363>>

Fragments ==
    { KW_empathy[1], KW_empathy[1] \o KW_empathy[2], KW_knowledge[1],
      KW_deep_dive[2], KW_brainstorm[2], Filler, Question }

RECURSIVE TextsOf(_)
TextsOf(n) ==
    IF n = 0 THEN {<<>>}
    ELSE LET shorter == TextsOf(n - 1)
         IN  shorter \cup {t \o f : t \in shorter, f \in Fragments}

Texts == TextsOf(MaxParts)

(***************************************************************************)
(* Outcomes of a call: a returned value or a raised exception.             *)
(***************************************************************************)
Return(v) == [raised |-> FALSE, value |-> v]
Raise(e) == [raised |-> TRUE, value |-> e]

ClassificationResult(intent, confidence) ==
    [intent |-> intent, confidence |-> confidence]

(***************************************************************************)
(* IntentRouter._fallback_classify                                         *)
(***************************************************************************)
\* scores[intent]: the number of the intent's keywords occurring in the text
Scores(input_text) ==
    [intent \in Intents |->
        IF intent \in DOMAIN _KEYWORD_MAP
        THEN Cardinality({i \in DOMAIN _KEYWORD_MAP[intent] :
                             Contains(_KEYWORD_MAP[intent][i], input_text)})
        ELSE 0]

\* max(scores, key=scores.get): the first key, in iteration order, of a
\* maximal score
MaxKeyLast(scores) ==
    LET top == CHOOSE m \in {scores[k] : k \in Intents} :
                   \A k \in Intents : scores[k] <= m
        i == CHOOSE j \in DOMAIN ConversationIntent :
                 /\ scores[ConversationIntent[j]] = top
                 /\ \A h \in (j + 1)..Len(ConversationIntent) :
                        scores[ConversationIntent[h]] < top
    IN  ConversationIntent[i]

MaxKey(scores) ==
    LET top == CHOOSE m \in {scores[k] : k \in Intents} :
                   \A k \in Intents : scores[k] <= m
        i == CHOOSE j \in DOMAIN ConversationIntent :
                 /\ scores[ConversationIntent[j]] = top
                 /\ \A h \in 1..(j - 1) : scores[ConversationIntent[h]] < top
    IN  ConversationIntent[i]

FallbackNoFloor(input_text) ==
    LET scores == Scores(input_text)
        max_intent == MaxKey(scores)
        max_score == scores[max_intent]
        total == SumSeq([i \in DOMAIN ConversationIntent |->
                            scores[ConversationIntent[i]]])
        confidence == IF total > 0 THEN Frac(max_score, total) ELSE <<3, 10>>
    IN  IF max_score = 0
        THEN ClassificationResult(CHAT, <<1, 2>>)
        ELSE ClassificationResult(max_intent, FracMin(confidence, <<7, 10>>))

_fallback_classify(input_text) ==
    LET scores == Scores(input_text)
        max_intent == MaxKey(scores)
        max_score == scores[max_intent]
        total == SumSeq([i \in DOMAIN ConversationIntent |->
                            scores[ConversationIntent[i]]])
        confidence == IF total > 0 THEN Frac(max_score, total) ELSE <<3, 10>>
    IN  IF max_score = 0
        THEN ClassificationResult(CHAT, <<3, 10>>)
        ELSE ClassificationResult(max_intent, FracMin(confidence, <<7, 10>>))

\* _fallback_classify on the input texts, computed once per text
FallbackOf == [input_text \in Texts |-> _fallback_classify(input_text)]

(***************************************************************************)
(* The values generate_json can return (json.loads of the model output).   *)
(* A value of a map is a string, a number, a boolean, null or an array;    *)
(* Missing stands for a key the map does not hold.                         *)
(***************************************************************************)
JStr(s) == [t |-> "str", s |-> s, n |-> 0, d |-> 1]
JNum(n, d) == [t |-> "num", s |-> <<>>, n |-> n, d |-> d]
JBool(b) == [t |-> "bool", s |-> <<>>, n |-> IF b THEN 1 ELSE 0, d |-> 1]
JNull == [t |-> "null", s |-> <<>>, n |-> 0, d |-> 1]
JList == [t |-> "list", s |-> <<>>, n |-> 0, d |-> 1]
Missing == [t |-> "missing", s |-> <<>>, n |-> 0, d |-> 1]

JDict(intent, confidence) ==
    [kind |-> "dict", intent |-> intent, confidence |-> confidence]
JNonDict(kind) == [kind |-> kind, intent |-> Missing, confidence |-> Missing]
NoJson == JNonDict("none")

S_chat == <<99, 104, 97, 116>>
S_empathy == <<101, 109, 112, 97, 116, 104, 121>>
S_knowledge == <<107, 110, 111, 119, 108, 101, 100, 103, 101>>
S_deep_dive == <<100, 101, 101, 112, 95, 100, 105, 118, 101>>
S_brainstorm == <<98, 114, 97, 105, 110, 115, 116, 111, 114, 109>>
S_state == <<115, 116, 97, 116, 101>>
S_Empathy == <<69, 109, 112, 97, 116, 104, 121>>
S_CHAT == <<67, 72, 65, 84>>
S_DEEP_DIVE == <<68, 69, 69, 80, 95, 68, 73, 86, 69>>
S_other == <<111, 116, 104, 101, 114>>
S_high == <<104, 105, 103, 104>>

IntentValues ==
    { Missing, JNull, JNum(1, 1), JList,
      JStr(S_chat), JStr(S_empathy), JStr(S_knowledge), JStr(S_deep_dive),
      JStr(S_brainstorm), JStr(S_state), JStr(S_Empathy), JStr(S_CHAT),
      JStr(S_DEEP_DIVE), JStr(S_other), JStr(<<>>) }

ConfidenceValues ==
    { Missing, JNull, JStr(S_high), JBool(TRUE), JBool(FALSE),
      JNum(0, 1), JNum(1, 4), JNum(9, 10), JNum(1, 1), JNum(3, 2),
      JNum(-1, 2), JNum(2, 1) }

JsonValues ==
    {JDict(i, c) : i \in IntentValues, c \in ConfidenceValues}
        \cup {JNonDict("list"), JNonDict("str"), JNonDict("null")}

\* dict.get(key, default)
DictGet(result, key, default) ==
    IF result[key].t = "missing" THEN default ELSE result[key]

(***************************************************************************)
(* IntentRouter._parse_result                                              *)
(***************************************************************************)
intent_map ==
    [s \in {S_chat, S_empathy, S_knowledge, S_deep_dive, S_brainstorm} |->
        CASE s = S_chat -> CHAT
          [] s = S_empathy -> EMPATHY
          [] s = S_knowledge -> KNOWLEDGE
          [] s = S_deep_dive -> DEEP_DIVE
          [] s = S_brainstorm -> BRAINSTORM]

_parse_result(result) ==
    IF result.kind # "dict"
    THEN Raise("AttributeError")                \* no .get on a non-map
    ELSE
      LET intent_val == DictGet(result, "intent", JStr(S_chat))
      IN  IF intent_val.t # "str"
          THEN Raise("AttributeError")          \* no .lower() on a non-string
          ELSE
            LET intent_str == Lower(intent_val.s)
                intent == IF intent_str \in DOMAIN intent_map
                          THEN intent_map[intent_str] ELSE CHAT
                got == DictGet(result, "confidence", JNum(1, 2))
                \* isinstance(confidence, (int, float)) holds of a bool too
                number == IF got.t \in {"num", "bool"} THEN got ELSE JNum(1, 2)
                confidence == FracMax(<<0, 1>>,
                                  FracMin(<<1, 1>>, Frac(number.n, number.d)))
            IN  Return(ClassificationResult(intent, confidence))

(***************************************************************************)
(* The outcomes of the client a call meets: llm_manager.get_client,        *)
(* provider.initialize and provider.generate_json / generate_text.         *)
(***************************************************************************)
Handle == "provider"

(***************************************************************************)
(* VertexAIProvider.generate_json.  An answer of the model is an API error *)
(* or a text: empty, a JSON document ("json"), prose holding a JSON        *)
(* document ("fenced"), or text holding none ("garbage").                  *)
(***************************************************************************)
PyNone == JNonDict("null")

ModelReply(kind, value) == [kind |-> kind, value |-> value]

\* json.loads(response.text if response.text else "{}")
JsonLoads(reply) ==
    CASE reply.kind = "empty" -> Return(JDict(Missing, Missing))
      [] reply.kind = "json" -> Return(reply.value)
      [] OTHER -> Raise("JSONDecodeError")

extract_json_from_text(reply) ==
    CASE reply.kind \in {"json", "fenced"} -> reply.value
      [] OTHER -> PyNone

generate_json(first, second) ==
    IF first.kind # "error" /\ ~JsonLoads(first).raised
    THEN JsonLoads(first)
    ELSE \* except Exception: plain text generation, then JSON extraction
         IF second.kind = "error"
         THEN Raise("Exception")
         ELSE LET result == extract_json_from_text(second)
              IN  IF result = PyNone
                  THEN Raise("ValueError")
                  ELSE Return(result)

FirstReplies ==
    {ModelReply(k, NoJson) : k \in {"error", "empty", "garbage"}}
        \cup {ModelReply("json", v) : v \in JsonValues}

SecondReplies ==
    {ModelReply(k, NoJson) : k \in {"error", "empty", "garbage"}}
        \cup {ModelReply(k, v) : k \in {"json", "fenced"},
                                 v \in {JDict(Missing, Missing), PyNone,
                                        JDict(JStr(S_knowledge), JNum(1, 4))}}

GenJsonOutcomes == {generate_json(f, s) : f \in FirstReplies, s \in SecondReplies}

\* what the client does during one call: whether get_client hands out a
\* handle, whether initialize() returns, what generate_json does
ClientBehaviour(available, init_ok, gen) ==
    [available |-> available, init_ok |-> init_ok, gen |-> gen]

JsonClientBehaviours ==
    {ClientBehaviour(a, FALSE, Raise("RuntimeError")) : a \in BOOLEAN}
        \cup {ClientBehaviour(a, TRUE, g) : a \in BOOLEAN, g \in GenJsonOutcomes}

(***************************************************************************)
(* IntentRouter._get_provider: the handle is cached once obtained.         *)
(***************************************************************************)
_get_provider(cached, available) ==
    IF cached = None
    THEN (IF available THEN Handle ELSE None)
    ELSE cached

(***************************************************************************)
(* IntentRouter.classify                                                   *)
(***************************************************************************)
\* the body of the try block
ClassifyTry(init_ok, gen) ==
    IF ~init_ok THEN Raise("Exception")
    ELSE IF gen.raised THEN gen
    ELSE _parse_result(gen.value)

ClassifyNoExcept(input_text, provider, init_ok, gen) ==
    IF provider = None
    THEN Return(FallbackOf[input_text])
    ELSE ClassifyTry(init_ok, gen)

ClassifyChatOnError(input_text, provider, init_ok, gen) ==
    IF provider = None
    THEN Return(FallbackOf[input_text])
    ELSE LET tried == ClassifyTry(init_ok, gen)
         IN  IF tried.raised
             THEN Return(ClassificationResult(CHAT, <<1, 2>>))
             ELSE tried

classify(input_text, provider, init_ok, gen) ==
    IF provider = None
    THEN Return(FallbackOf[input_text])
    ELSE LET tried == ClassifyTry(init_ok, gen)
         IN  IF tried.raised
             THEN Return(FallbackOf[input_text])           \* except Exception
             ELSE tried

\* where the call left the LLM path
ClassifyPath(provider, init_ok, gen) ==
    IF provider = None THEN "no_provider"
    ELSE IF ~init_ok THEN "initialize_raised"
    ELSE IF gen.raised THEN "generate_json_raised"
    ELSE IF _parse_result(gen.value).raised THEN "parse_raised"
    ELSE "parsed"

IdleCall ==
    [pc |-> "idle", input_text |-> <<>>, available |-> FALSE,
     path |-> "none", json |-> NoJson, outcome |-> Raise("none")]

Classify ==
    /\ cls.pc = "idle"
    /\ \E input_text \in Texts, client \in JsonClientBehaviours :
         LET provider == _get_provider(router_provider, client.available)
             path == ClassifyPath(provider, client.init_ok, client.gen)
         IN  /\ router_provider' = provider
             /\ cls' = [pc |-> "done",
                        input_text |-> input_text,
                        available |-> client.available,
                        path |-> path,
                        json |-> IF path \in {"parse_raised", "parsed"}
                                 THEN client.gen.value ELSE NoJson,
                        outcome |-> classify(input_text, provider,
                                             client.init_ok, client.gen)]
    /\ UNCHANGED <<node, clock, ticks, users, raw_logs, runs, fn>>

\* the caller takes the result of the call
ClassifyReturn ==
    /\ cls.pc = "done"
    /\ cls' = IdleCall
    /\ UNCHANGED <<router_provider, node, clock, ticks, users, raw_logs, runs, fn>>

(***************************************************************************)
(* The response nodes.  The reply strings of the source, as code points.   *)
(***************************************************************************)
CHAT_FALLBACK ==
    << 12394, 12427, 12411, 12393, 65281, 12356, 12356, 12391, 12377, 12397,
       12290 >>

EMPATHY_FALLBACK ==
    << 12362, 27671, 25345, 12385, 12289, 21463, 12369, 27490, 12417, 12414,
       12375, 12383, 12290, 35441, 12375, 12390, 12367, 12428, 12390, 12354,
       12426, 12364, 12392, 12358, 12372, 12374, 12356, 12414, 12377, 12290 >>

DEEP_DIVE_FALLBACK ==
    << 35506, 38988, 12434, 25972, 29702, 12375, 12390, 12415, 12414, 12375,
       12423, 12358, 12290, 12418, 12358, 23569, 12375, 35443, 12375, 12367,
       25945, 12360, 12390, 12356, 12383, 12384, 12369, 12414, 12377, 12363,
       65311 >>

RESEARCH_UNAVAILABLE ==
    << 30003, 12375, 35379, 12354, 12426, 12414, 12379, 12435, 12290, 68,
       101, 101, 112, 32, 82, 101, 115, 101, 97, 114, 99, 104, 32, 12469,
       12540, 12499, 12473, 12364, 29694, 22312, 21033, 29992, 12391, 12365,
       12414, 12379, 12435, 12290, 10, 36890, 24120, 12398, 22238, 31572,
       12434, 12372, 21442, 29031, 12367, 12384, 12373, 12356, 12290 >>

RESEARCH_FAILED ==
    << 68, 101, 101, 112, 32, 82, 101, 115, 101, 97, 114, 99, 104, 32,
       12398, 23455, 34892, 20013, 12395, 12456, 12521, 12540, 12364, 30330,
       29983, 12375, 12414, 12375, 12383, 12290, 10, 36890, 24120, 12398,
       22238, 31572, 12434, 12372, 21442, 29031, 12367, 12384, 12373, 12356,
       12290, 20877, 24230, 12362, 35430, 12375, 12356, 12383, 12384, 12367,
       12371, 12392, 12418, 12391, 12365, 12414, 12377, 12290 >>

RESEARCH_MARKER ==
    << 128300, 32, 42, 42, 68, 101, 101, 112, 32, 82, 101, 115, 101, 97,
       114, 99, 104, 32, 32080, 26524, 42, 42, 10, 10 >>

QUERY_HEAD ==
    << 20803, 12398, 36074, 21839, 58, 32 >>

QUERY_MIDDLE ==
    << 10, 10, 21021, 22238, 12398, 22238, 31572, 65288, 12371, 12428,
       12434, 28145, 25496, 12426, 12375, 12390, 12367, 12384, 12373, 12356,
       65289, 58, 10 >>
\* LLMResponse.content: always a string, possibly empty
Contents == {<<>>, Filler, CHAT_FALLBACK, RESEARCH_UNAVAILABLE}

GenTextOutcomes == {Raise("Exception")} \cup {Return(c) : c \in Contents}

TextClientBehaviours ==
    {ClientBehaviour(a, FALSE, Raise("Exception")) : a \in BOOLEAN}
        \cup {ClientBehaviour(a, TRUE, g) : a \in BOOLEAN, g \in GenTextOutcomes}

\* the state map handed to a node: input_text, and previous_response when
\* has_previous
NodeStates ==
    [input_text : Texts, has_previous : {FALSE}, previous_response : {<<>>}]
        \cup [input_text : Texts, has_previous : {TRUE},
              previous_response : {<<>>, Filler}]

Response(text) == [response |-> text]

\* chat_node._get_provider and its likes: no caching, one tier per node
NodeProvider(available) == IF available THEN Handle ELSE None

\* where a node call left the LLM path
NodePath(provider, init_ok, gen) ==
    IF provider = None THEN "no_provider"
    ELSE IF ~init_ok THEN "initialize_raised"
    ELSE IF gen.raised THEN "generate_text_raised"
    ELSE "generated"

(***************************************************************************)
(* run_chat_node                                                           *)
(***************************************************************************)
ChatNodeNoExcept(state, provider, init_ok, gen) ==
    IF provider = None
    THEN Return(Response(CHAT_FALLBACK))
    ELSE IF ~init_ok THEN Raise("Exception")
         ELSE IF gen.raised THEN gen
         ELSE Return(Response(gen.value))

run_chat_node(state, provider, init_ok, gen) ==
    IF provider = None
    THEN Return(Response(CHAT_FALLBACK))
    ELSE LET tried == IF ~init_ok THEN Raise("Exception")
                      ELSE IF gen.raised THEN gen
                      ELSE Return(Response(gen.value))
         IN  IF tried.raised
             THEN Return(Response(CHAT_FALLBACK))        \* except Exception
             ELSE tried

(***************************************************************************)
(* run_empathy_node                                                        *)
(***************************************************************************)
run_empathy_node(state, provider, init_ok, gen) ==
    IF provider = None
    THEN Return(Response(EMPATHY_FALLBACK))
    ELSE LET tried == IF ~init_ok THEN Raise("Exception")
                      ELSE IF gen.raised THEN gen
                      ELSE Return(Response(gen.value))
         IN  IF tried.raised
             THEN Return(Response(EMPATHY_FALLBACK))     \* except Exception
             ELSE tried

(***************************************************************************)
(* run_deep_dive_node                                                      *)
(***************************************************************************)
run_deep_dive_node(state, provider, init_ok, gen) ==
    IF provider = None
    THEN Return(Response(DEEP_DIVE_FALLBACK))
    ELSE LET tried == IF ~init_ok THEN Raise("Exception")
                      ELSE IF gen.raised THEN gen
                      ELSE Return(Response(gen.value))
         IN  IF tried.raised
             THEN Return(Response(DEEP_DIVE_FALLBACK))   \* except Exception
             ELSE tried

(***************************************************************************)
(* run_deep_research_node                                                  *)
(***************************************************************************)
\* the user message sent to the client
ResearchQuery(state) ==
    LET previous_response ==
            IF state.has_previous THEN state.previous_response ELSE <<>>
    IN  IF previous_response # <<>>
        THEN QUERY_HEAD \o state.input_text \o QUERY_MIDDLE \o previous_response
        ELSE state.input_text

run_deep_research_node(state, provider, init_ok, gen) ==
    IF provider = None
    THEN Return(Response(RESEARCH_UNAVAILABLE))
    ELSE LET tried == IF ~init_ok THEN Raise("Exception")
                      ELSE IF gen.raised THEN gen
                      ELSE Return(Response(RESEARCH_MARKER \o gen.value))
         IN  IF tried.raised
             THEN Return(Response(RESEARCH_FAILED))      \* except Exception
             ELSE tried

IdleNode ==
    [pc |-> "idle", strategy |-> "none", state |-> [input_text |-> <<>>,
     has_previous |-> FALSE, previous_response |-> <<>>],
     path |-> "none", query |-> <<>>, outcome |-> Raise("none")]

NodeCall(strategy, state, path, query, outcome) ==
    [pc |-> "done", strategy |-> strategy, state |-> state, path |-> path,
     query |-> query, outcome |-> outcome]

RunChatNode ==
    /\ node.pc = "idle"
    /\ \E state \in NodeStates, client \in TextClientBehaviours :
         LET provider == NodeProvider(client.available)
             path == NodePath(provider, client.init_ok, client.gen)
         IN  node' = NodeCall("chat", state, path,
                        IF path \in {"generate_text_raised", "generated"}
                        THEN state.input_text ELSE <<>>,
                        run_chat_node(state, provider, client.init_ok,
                                      client.gen))
    /\ UNCHANGED <<router_provider, cls, clock, ticks, users, raw_logs, runs, fn>>

RunEmpathyNode ==
    /\ node.pc = "idle"
    /\ \E state \in NodeStates, client \in TextClientBehaviours :
         LET provider == NodeProvider(client.available)
             path == NodePath(provider, client.init_ok, client.gen)
         IN  node' = NodeCall("empathy", state, path,
                        IF path \in {"generate_text_raised", "generated"}
                        THEN state.input_text ELSE <<>>,
                        run_empathy_node(state, provider, client.init_ok,
                                         client.gen))
    /\ UNCHANGED <<router_provider, cls, clock, ticks, users, raw_logs, runs, fn>>

RunDeepDiveNode ==
    /\ node.pc = "idle"
    /\ \E state \in NodeStates, client \in TextClientBehaviours :
         LET provider == NodeProvider(client.available)
             path == NodePath(provider, client.init_ok, client.gen)
         IN  node' = NodeCall("deep_dive", state, path,
                        IF path \in {"generate_text_raised", "generated"}
                        THEN state.input_text ELSE <<>>,
                        run_deep_dive_node(state, provider, client.init_ok,
                                           client.gen))
    /\ UNCHANGED <<router_provider, cls, clock, ticks, users, raw_logs, runs, fn>>

RunDeepResearchNode ==
    /\ node.pc = "idle"
    /\ \E state \in NodeStates, client \in TextClientBehaviours :
         LET provider == NodeProvider(client.available)
             path == NodePath(provider, client.init_ok, client.gen)
         IN  node' = NodeCall("deep_research", state, path,
                        IF path \in {"generate_text_raised", "generated"}
                        THEN ResearchQuery(state) ELSE <<>>,
                        run_deep_research_node(state, provider,
                                               client.init_ok, client.gen))
    /\ UNCHANGED <<router_provider, cls, clock, ticks, users, raw_logs, runs, fn>>

\* the caller takes the reply
NodeReturn ==
    /\ node.pc = "done"
    /\ node' = IdleNode
    /\ UNCHANGED <<router_provider, cls, clock, ticks, users, raw_logs, runs, fn>>

(***************************************************************************)
(* The user profiler.  Times are in hours; a RawLog row holds user_id,     *)
(* created_at, is_analyzed, content, emotions, topics and intent.          *)
(***************************************************************************)
_RECENT_DAYS == 14
_TREND_DAYS == 7
QueryLimit == 200            \* .limit(200)
HoursPerDay == 24

\* timedelta(days=n)
Days(n) == n * HoursPerDay

RawLog(user_id, created_at, is_analyzed, content, emotions, topics, intent) ==
    [user_id |-> user_id, created_at |-> created_at,
     is_analyzed |-> is_analyzed, content |-> content,
     emotions |-> emotions, topics |-> topics, intent |-> intent]

Range(s) == {s[i] : i \in DOMAIN s}


(***************************************************************************)
(* collections.Counter: the keys in the order of their first count, each   *)
(* with its count.                                                         *)
(***************************************************************************)
CounterAdd(counter, key) ==
    IF \E i \in DOMAIN counter : counter[i][1] = key
    THEN [i \in DOMAIN counter |->
             IF counter[i][1] = key
             THEN <<key, counter[i][2] + 1>> ELSE counter[i]]
    ELSE Append(counter, <<key, 1>>)

\* counter[key], 0 for a key never counted
CounterGet(counter, key) ==
    IF \E i \in DOMAIN counter : counter[i][1] = key
    THEN counter[CHOOSE i \in DOMAIN counter : counter[i][1] = key][2]
    ELSE 0

\* the counter after counting the keys of `later` on top of `counter`
CounterMerge(counter, later) ==
    LET IsNew(entry) == CounterGet(counter, entry[1]) = 0
    IN  [i \in DOMAIN counter |->
            <<counter[i][1], counter[i][2] + CounterGet(later, counter[i][1])>>]
        \o SelectSeq(later, IsNew)

\* the counter after counting the keys one by one (computed by halves)
RECURSIVE CounterOf(_)
CounterOf(keys) ==
    IF keys = <<>> THEN <<>>
    ELSE IF Len(keys) = 1 THEN CounterAdd(<<>>, keys[1])
    ELSE LET half == Len(keys) \div 2
         IN  CounterMerge(CounterOf(SubSeq(keys, 1, half)),
                          CounterOf(SubSeq(keys, half + 1, Len(keys))))

\* sum(counter.values())
CounterTotal(counter) == SumSeq([i \in DOMAIN counter |-> counter[i][2]])

\* the counter without its i-th key
RemoveAt(s, i) == SubSeq(s, 1, i - 1) \o SubSeq(s, i + 1, Len(s))

\* Counter.most_common(n): by count, largest first, equal counts in the
\* order of first count
RECURSIVE most_common(_, _)
most_common(counter, n) ==
    IF n = 0 \/ counter = <<>> THEN <<>>
    ELSE LET i == CHOOSE j \in DOMAIN counter :
                      /\ \A k \in DOMAIN counter : counter[k][2] <= counter[j][2]
                      /\ \A k \in 1..(j - 1) : counter[k][2] < counter[j][2]
         IN  <<counter[i]>> \o most_common(RemoveAt(counter, i), n - 1)

\* the concatenation of a sequence of sequences
RECURSIVE Flatten(_)
Flatten(ss) ==
    IF ss = <<>> THEN <<>>
    ELSE IF Len(ss) = 1 THEN ss[1]
    ELSE LET half == Len(ss) \div 2
         IN  Flatten(SubSeq(ss, 1, half)) \o Flatten(SubSeq(ss, half + 1, Len(ss)))

\* the logs at or after the trend cutoff (recent) or before it
SelectLogs(logs, trend_cutoff, recent) ==
    LET Test(log) == (log.created_at >= trend_cutoff) = recent
    IN  SelectSeq(logs, Test)

(***************************************************************************)
(* UserProfiler._detect_emotion_trend                                      *)
(***************************************************************************)
negative == {"frustrated", "angry", "anxious", "confused"}
positive == {"achieved", "excited", "relieved"}
fatigue == {"frustrated", "anxious"}

\* sum(counter[e] for e in emotions)
CountIn(counter, emotions) ==
    SumSeq([i \in DOMAIN counter |->
               IF counter[i][1] \in emotions THEN counter[i][2] ELSE 0])

\* the float literals 0.2 and 0.15
FatigueMargin == FloatDiv(1, 5)
NegativeMargin == FloatDiv(3, 20)

\* a ratio count / total with the sums and the difference it is compared to
RatioEntry(count, total) ==
    LET ratio == FloatDiv(count, total)
    IN  [ratio |-> ratio,
         plus_fatigue |-> FloatAdd(ratio, FatigueMargin),
         plus_negative |-> FloatAdd(ratio, NegativeMargin),
         minus_negative |-> FloatSub(ratio, NegativeMargin)]

\* the ratios of small counts, computed once
Ratios ==
    [total \in 1..MaxTotal |-> [count \in 0..total |-> RatioEntry(count, total)]]

RatioOf(count, total) ==
    IF total <= MaxTotal THEN Ratios[total][count] ELSE RatioEntry(count, total)

\* a comparison that also takes a fatigue difference of exactly 0.2
DetectEmotionTrendInclusive(recent, older) ==
    LET recent_total == IF CounterTotal(recent) = 0 THEN 1 ELSE CounterTotal(recent)
        older_total == IF CounterTotal(older) = 0 THEN 1 ELSE CounterTotal(older)
        recent_neg_ratio == RatioOf(CountIn(recent, negative), recent_total)
        older_neg_ratio == RatioOf(CountIn(older, negative), older_total)
        recent_fatigue == RatioOf(CountIn(recent, fatigue), recent_total)
        older_fatigue == RatioOf(CountIn(older, fatigue), older_total)
    IN  IF ~FloatLess(recent_fatigue.ratio, older_fatigue.plus_fatigue)
        THEN "fatigue_increasing"
        ELSE IF FloatLess(older_neg_ratio.plus_negative, recent_neg_ratio.ratio)
        THEN "more_negative"
        ELSE IF FloatLess(recent_neg_ratio.ratio, older_neg_ratio.minus_negative)
        THEN "more_positive"
        ELSE "stable"

_detect_emotion_trend(recent, older) ==
    LET recent_total == IF CounterTotal(recent) = 0 THEN 1 ELSE CounterTotal(recent)
        older_total == IF CounterTotal(older) = 0 THEN 1 ELSE CounterTotal(older)
        recent_neg_ratio == RatioOf(CountIn(recent, negative), recent_total)
        older_neg_ratio == RatioOf(CountIn(older, negative), older_total)
        recent_fatigue == RatioOf(CountIn(recent, fatigue), recent_total)
        older_fatigue == RatioOf(CountIn(older, fatigue), older_total)
    IN  IF FloatLess(older_fatigue.plus_fatigue, recent_fatigue.ratio)
        THEN "fatigue_increasing"
        ELSE IF FloatLess(older_neg_ratio.plus_negative, recent_neg_ratio.ratio)
        THEN "more_negative"
        ELSE IF FloatLess(recent_neg_ratio.ratio, older_neg_ratio.minus_negative)
        THEN "more_positive"
        ELSE "stable"

(***************************************************************************)
(* UserProfiler._aggregate_emotions                                        *)
(***************************************************************************)
EmotionsOf(logs) == Flatten([i \in DOMAIN logs |-> logs[i].emotions])

_aggregate_emotions(logs, now) ==
    LET trend_cutoff == now - Days(_TREND_DAYS)
        counter == CounterOf(EmotionsOf(logs))
        recent_counter == CounterOf(EmotionsOf(SelectLogs(logs, trend_cutoff, TRUE)))
        older_counter == CounterOf(EmotionsOf(SelectLogs(logs, trend_cutoff, FALSE)))
        top == most_common(counter, 5)
    IN  [top_emotions |-> [i \in DOMAIN top |->
                              [emotion |-> top[i][1], count |-> top[i][2]]],
         total_entries |-> CounterTotal(counter),
         recent_trend |-> _detect_emotion_trend(recent_counter, older_counter)]

(***************************************************************************)
(* UserProfiler._aggregate_topic_emotions                                  *)
(***************************************************************************)
\* the (topic, emotion) pairs of a log, topics outermost
PairsOfLog(log) ==
    Flatten([t \in DOMAIN log.topics |->
                [e \in DOMAIN log.emotions |-> <<log.topics[t], log.emotions[e]>>]])

\* the emotions counted under the topic, in order
SelectTopic(pairs, topic) ==
    LET Test(pair) == pair[1] = topic
        selected == SelectSeq(pairs, Test)
    IN  [i \in DOMAIN selected |-> selected[i][2]]

RECURSIVE TopicEntries(_, _)
TopicEntries(topics, pairs) ==
    IF topics = <<>> THEN <<>>
    ELSE LET topic == Head(topics)[1]
             emotion_counter == CounterOf(SelectTopic(pairs, topic))
             rest == TopicEntries(Tail(topics), pairs)
         IN  IF CounterTotal(emotion_counter) < 2
             THEN rest                                  \* too few samples
             ELSE <<[topic |-> topic,
                     dominant_emotion |-> most_common(emotion_counter, 1)[1][1],
                     count |-> CounterTotal(emotion_counter),
                     distribution |-> emotion_counter]>> \o rest

\* an aggregation that keeps every topic, however few its samples
AggregateTopicsUnfiltered(logs) ==
    LET pairs == Flatten([i \in DOMAIN logs |-> PairsOfLog(logs[i])])
        topics == CounterOf([i \in DOMAIN pairs |-> pairs[i][1]])
    IN  [i \in DOMAIN topics |->
            LET emotion_counter == CounterOf(SelectTopic(pairs, topics[i][1]))
            IN  [topic |-> topics[i][1],
                 dominant_emotion |-> most_common(emotion_counter, 1)[1][1],
                 count |-> CounterTotal(emotion_counter),
                 distribution |-> emotion_counter]]

\* the map as the sequence of its items, in insertion order
_aggregate_topic_emotions(logs) ==
    LET pairs == Flatten([i \in DOMAIN logs |-> PairsOfLog(logs[i])])
        topics == CounterOf([i \in DOMAIN pairs |-> pairs[i][1]])
    IN  TopicEntries(topics, pairs)

(***************************************************************************)
(* UserProfiler._aggregate_posting_pattern                                 *)
(***************************************************************************)
\* round(n / d, 1) in tenths: to the nearest tenth, a tie (n/d a multiple of
\* 1/4, exact in binary) going to the even tenth
RoundTenths(n, d) ==
    LET q == (10 * n) \div d
        r == (10 * n) % d
    IN  IF 2 * r < d THEN q
        ELSE IF 2 * r > d THEN q + 1
        ELSE IF q % 2 = 0 THEN q ELSE q + 1

\* an average count / days with its products by 0.5 and by 1.5
AverageEntry(count, days) ==
    LET avg == FloatDiv(count, days)
    IN  [avg |-> avg, half |-> FloatHalf(avg), one_and_half |-> FloatOneAndHalf(avg)]

\* the averages over 7 days of the numbers of logs a query can return,
\* computed once
Averages == [count \in 0..QueryLimit |-> AverageEntry(count, _TREND_DAYS)]

AverageOf(count, days) ==
    IF days = _TREND_DAYS /\ count <= QueryLimit
    THEN Averages[count] ELSE AverageEntry(count, days)

_aggregate_posting_pattern(logs, now) ==
    IF logs = <<>> THEN <<>>
    ELSE
      LET daily_counts == CounterOf([i \in DOMAIN logs |->
                                        logs[i].created_at \div HoursPerDay])
          hour_counts == CounterOf([i \in DOMAIN logs |->
                                       logs[i].created_at % HoursPerDay])
          total_days == Max(Len(daily_counts), 1)
          peak == most_common(hour_counts, 3)
          trend_cutoff == now - Days(_TREND_DAYS)
          recent_count == Len(SelectLogs(logs, trend_cutoff, TRUE))
          older_count == Len(logs) - recent_count
          older_days == Max(_RECENT_DAYS - _TREND_DAYS, 1)
          recent_avg == AverageOf(recent_count, _TREND_DAYS)
          older_avg == AverageOf(older_count, older_days)
          frequency_change ==
              IF FloatLess(FloatZero, older_avg.avg)
                   /\ FloatLess(recent_avg.avg, older_avg.half)
              THEN "decreasing"
              ELSE IF FloatLess(FloatZero, older_avg.avg)
                        /\ FloatLess(older_avg.one_and_half, recent_avg.avg)
              THEN "increasing"
              ELSE "stable"
      IN  [avg_per_day |-> <<RoundTenths(Len(logs), total_days), 10>>,
           peak_hours |-> [i \in DOMAIN peak |-> peak[i][1]],
           frequency_change |-> frequency_change,
           total_logs |-> Len(logs)]

(***************************************************************************)
(* UserProfiler._detect_signals                                            *)
(***************************************************************************)
fatigue_keywords ==
    << <<30130, 12428>>,
       <<12384, 12427, 12356>>,
       <<30496, 12356>>,
       <<12375, 12435, 12393, 12356>>,
       <<12388, 12425, 12356>>,
       <<12365, 12388, 12356>> >>

Signal(type, severity, description) ==
    [type |-> type, severity |-> severity, description |-> description]

\* a detection that counts the fatigue keywords found, not the entries
DetectSignalsKeywordHits(logs, emotion_trends, posting_pattern) ==
    LET fatigue_count ==
            Cardinality({hit \in (DOMAIN logs) \X (DOMAIN fatigue_keywords) :
                Contains(fatigue_keywords[hit[2]], logs[hit[1]].content)})
        \* dict.get: None for a key the dict lacks
        trend == IF "recent_trend" \in DOMAIN emotion_trends
                 THEN emotion_trends.recent_trend ELSE None
        freq_change == IF "frequency_change" \in DOMAIN posting_pattern
                       THEN posting_pattern.frequency_change ELSE None
        recent20 == SubSeq(logs, 1, Min(Len(logs), 20))
        state_count == Cardinality({i \in DOMAIN recent20 :
                                       recent20[i].intent = "state"})
    IN  (IF fatigue_count >= 5
         THEN <<Signal("fatigue_repetition", "warning",
                       <<"fatigue posts", fatigue_count, _RECENT_DAYS>>)>>
         ELSE <<>>)
        \o (IF trend = "fatigue_increasing"
            THEN <<Signal("stress_increasing", "warning", <<"stress increasing">>)>>
            ELSE IF trend = "more_negative"
            THEN <<Signal("negativity_increasing", "info", <<"more negative">>)>>
            ELSE <<>>)
        \o (IF freq_change = "decreasing"
            THEN <<Signal("posting_decrease", "info", <<"posting decrease">>)>>
            ELSE <<>>)
        \o (IF state_count >= 10
            THEN <<Signal("state_dominant", "info", <<"state dominant">>)>>
            ELSE <<>>)

_detect_signals(logs, emotion_trends, posting_pattern) ==
    LET fatigue_count ==
            Cardinality({i \in DOMAIN logs :
                \E k \in DOMAIN fatigue_keywords :
                    Contains(fatigue_keywords[k], logs[i].content)})
        \* dict.get: None for a key the dict lacks
        trend == IF "recent_trend" \in DOMAIN emotion_trends
                 THEN emotion_trends.recent_trend ELSE None
        freq_change == IF "frequency_change" \in DOMAIN posting_pattern
                       THEN posting_pattern.frequency_change ELSE None
        recent20 == SubSeq(logs, 1, Min(Len(logs), 20))
        state_count == Cardinality({i \in DOMAIN recent20 :
                                       recent20[i].intent = "state"})
    IN  (IF fatigue_count >= 5
         THEN <<Signal("fatigue_repetition", "warning",
                       <<"fatigue posts", fatigue_count, _RECENT_DAYS>>)>>
         ELSE <<>>)
        \o (IF trend = "fatigue_increasing"
            THEN <<Signal("stress_increasing", "warning", <<"stress increasing">>)>>
            ELSE IF trend = "more_negative"
            THEN <<Signal("negativity_increasing", "info", <<"more negative">>)>>
            ELSE <<>>)
        \o (IF freq_change = "decreasing"
            THEN <<Signal("posting_decrease", "info", <<"posting decrease">>)>>
            ELSE <<>>)
        \o (IF state_count >= 10
            THEN <<Signal("state_dominant", "info", <<"state dominant">>)>>
            ELSE <<>>)

(***************************************************************************)
(* UserProfiler._empty_profile and UserProfiler.build_profile              *)
(***************************************************************************)
Profile(updated_at, log_count, emotion_trends, topic_emotion_map, posting_pattern, signals) ==
    [updated_at |-> updated_at, log_count |-> log_count,
     period_days |-> _RECENT_DAYS, emotion_trends |-> emotion_trends,
     topic_emotion_map |-> topic_emotion_map,
     posting_pattern |-> posting_pattern, signals |-> signals]

_empty_profile(now) == Profile(now, 0, <<>>, <<>>, <<>>, <<>>)

\* a WHERE clause without the is_analyzed condition
MatchingUnanalyzed(table, user_id, cutoff) ==
    {i \in DOMAIN table : /\ table[i].user_id = user_id
                          /\ table[i].created_at >= cutoff}

\* the rows of the table matching the WHERE clause
Matching(table, user_id, cutoff) ==
    {i \in DOMAIN table : /\ table[i].user_id = user_id
                          /\ table[i].created_at >= cutoff
                          /\ table[i].is_analyzed}

\* every order of the rows in the set
Perms(ids) ==
    {s \in [1..Cardinality(ids) -> ids] :
        \A i, j \in DOMAIN s : i # j => s[i] # s[j]}

\* the orders of the rows created at the times ts (descending): the rows of
\* one time in any order, the times in the order given
RECURSIVE OrdersOf(_, _, _)
OrdersOf(table, ids, ts) ==
    IF Len(ts) = 1
    THEN Perms({i \in ids : table[i].created_at = ts[1]})
    ELSE LET half == Len(ts) \div 2
         IN  {a \o b : a \in OrdersOf(table, ids, SubSeq(ts, 1, half)),
                       b \in OrdersOf(table, ids, SubSeq(ts, half + 1, Len(ts)))}

\* ORDER BY created_at DESC: every order that puts no row before a newer
\* one; rows of equal created_at come in any order
NewestFirst(table, ids) ==
    IF ids = {} THEN {<<>>}
    ELSE LET times == {table[i].created_at : i \in ids}
             hi == CHOOSE t \in times : \A u \in times : u <= t
             lo == CHOOSE t \in times : \A u \in times : t <= u
             Used(t) == t \in times
             descending == SelectSeq([k \in 1..(hi - lo + 1) |-> hi - k + 1], Used)
         IN  OrdersOf(table, ids, descending)

\* the results the query of build_profile can return
QueryResults(table, user_id, now) ==
    LET cutoff == now - Days(_RECENT_DAYS)
    IN  {[k \in 1..Min(Len(s), QueryLimit) |-> table[s[k]]] :
            s \in NewestFirst(table, Matching(table, user_id, cutoff))}

\* the profile of a non-empty result: the signals are detected on the list
\* `seen`, from the aggregates of the rows fetched
ProfileOf(logs, seen, now, emotion_trends, topic_emotion_map, posting_pattern) ==
    Profile(now, Len(logs), emotion_trends, topic_emotion_map, posting_pattern,
            _detect_signals(seen, emotion_trends, posting_pattern))

\* build_profile without the test for an empty result
BuildProfileNoEmptyCheck(logs, now) ==
    ProfileOf(logs, logs, now, _aggregate_emotions(logs, now),
              _aggregate_topic_emotions(logs),
              _aggregate_posting_pattern(logs, now))

\* a build that detects the signals on the list oldest first
BuildProfileOldestFirst(logs, now) ==
    IF logs = <<>>
    THEN _empty_profile(now)
    ELSE ProfileOf(logs, [i \in DOMAIN logs |-> logs[Len(logs) - i + 1]], now,
                   _aggregate_emotions(logs, now),
                   _aggregate_topic_emotions(logs),
                   _aggregate_posting_pattern(logs, now))

\* a build that detects the signals before the aggregates exist
BuildProfileBlindSignals(logs, now) ==
    IF logs = <<>>
    THEN _empty_profile(now)
    ELSE Profile(now, Len(logs), _aggregate_emotions(logs, now),
                 _aggregate_topic_emotions(logs),
                 _aggregate_posting_pattern(logs, now),
                 _detect_signals(logs, <<>>, <<>>))

\* build_profile on the rows fetched
build_profile(logs, now) ==
    IF logs = <<>>
    THEN _empty_profile(now)
    ELSE ProfileOf(logs, logs, now, _aggregate_emotions(logs, now),
                   _aggregate_topic_emotions(logs),
                   _aggregate_posting_pattern(logs, now))

(***************************************************************************)
(* The store and the runs of UserProfiler.build_and_save.  Each run has    *)
(* its own session; it is suspended at its awaits (the query, session.get  *)
(* and session.commit), where other runs and the ingestion of entries      *)
(* interleave.  The clock is read in hours: the reads of one build_profile *)
(* call (the cutoff, the trend cutoff and updated_at) fall in one hour.    *)
(***************************************************************************)
Users == {"u1", "u2"}           \* the ids having a row in users
UserIds == Users \cup {"u3"}    \* "u3" has no row in users
Posters == {"u1"}               \* the users whose entries are ingested
Runs == {1, 2}                  \* the build_and_save calls, in the order of their start

\* the steps of the clock: an hour, and just over the aggregation window
Steps == {1, Days(_RECENT_DAYS) + 1}

\* users.profile_data IS NULL
SqlNull == [is_null |-> TRUE]

\* session.get(User, user_id) returning None
NoUser == [found |-> FALSE]

\* the rows ingestion can add for a user at a time
LogSamples(user_id, created_at) ==
    { RawLog(user_id, created_at, TRUE, Filler \o fatigue_keywords[5],
             <<"frustrated", "anxious">>, <<"work">>, "state"),
      RawLog(user_id, created_at, TRUE, Filler,
             <<"achieved">>, <<"work", "family">>, "log"),
      RawLog(user_id, created_at, FALSE, Filler, <<>>, <<>>, None) }

\* the profile as the JSONB column holds it: an object keeps no order of
\* its keys, an array keeps the order of its items
Jsonb(profile) ==
    [profile EXCEPT
        !.topic_emotion_map =
            {[entry EXCEPT !.distribution = Range(entry.distribution)] :
                entry \in Range(profile.topic_emotion_map)}]

\* a write that leaves the stored profile alone when the new one is empty
SaveUnlessEmpty(store, user_id, profile) ==
    IF user_id \in DOMAIN store /\ profile.log_count > 0
    THEN [store EXCEPT ![user_id].profile_data = Jsonb(profile)]
    ELSE store

\* a write that patches updated_at and log_count into a stored profile
SaveMerge(store, user_id, profile) ==
    IF user_id \notin DOMAIN store THEN store
    ELSE IF store[user_id].profile_data = SqlNull
    THEN [store EXCEPT ![user_id].profile_data = Jsonb(profile)]
    ELSE [store EXCEPT ![user_id].profile_data =
             [@ EXCEPT !.updated_at = profile.updated_at,
                       !.log_count = profile.log_count]]

\* a write that keeps a stored profile built later than the new one
SaveIfNewer(store, user_id, profile) ==
    IF user_id \notin DOMAIN store THEN store
    ELSE IF /\ store[user_id].profile_data # SqlNull
            /\ store[user_id].profile_data.updated_at > profile.updated_at
    THEN store
    ELSE [store EXCEPT ![user_id].profile_data = Jsonb(profile)]

\* build_and_save, the write: user.profile_data = profile; commit()
Save(store, user_id, profile) ==
    IF user_id \in DOMAIN store
    THEN [store EXCEPT ![user_id].profile_data = Jsonb(profile)]
    ELSE store

IdleRun ==
    [pc |-> "idle", user_id |-> None, profile |-> SqlNull,
     user |-> NoUser, result |-> Raise("none")]

\* an entry is ingested (outside this service)
AddLog ==
    /\ Len(raw_logs) < MaxLogs
    /\ \E user_id \in Posters :
         \E log \in LogSamples(user_id, clock) :
            raw_logs' = Append(raw_logs, log)
    /\ UNCHANGED <<router_provider, cls, node, clock, ticks, users, runs, fn>>

\* time passes
Tick ==
    /\ ticks < MaxTicks
    /\ \E step \in Steps : clock' = clock + step
    /\ ticks' = ticks + 1
    /\ UNCHANGED <<router_provider, cls, node, users, raw_logs, runs, fn>>

\* build_and_save up to the return of build_profile
BuildProfile(r) ==
    /\ runs[r].pc = "idle"
    /\ \A earlier \in Runs : earlier < r => runs[earlier].pc # "idle"
    /\ \E user_id \in UserIds :
         \E fetched \in QueryResults(raw_logs, user_id, clock) :
            runs' = [runs EXCEPT ![r] =
                        [IdleRun EXCEPT !.pc = "built",
                                        !.user_id = user_id,
                                        !.profile = build_profile(fetched, clock)]]
    /\ UNCHANGED <<router_provider, cls, node, clock, ticks, users, raw_logs, fn>>

\* user = await session.get(User, user_id); without a user the profile is
\* returned at once
GetUser(r) ==
    /\ runs[r].pc = "built"
    /\ runs' = [runs EXCEPT ![r] =
                  IF runs[r].user_id \in DOMAIN users
                  THEN [@ EXCEPT !.pc = "loaded",
                                 !.user = [found |-> TRUE,
                                           profile_data |->
                                               users[runs[r].user_id].profile_data]]
                  ELSE [@ EXCEPT !.pc = "done",
                                 !.result = Return(runs[r].profile)]]
    /\ UNCHANGED <<router_provider, cls, node, clock, ticks, users, raw_logs, fn>>

\* user.profile_data = profile; await session.commit(); return profile
Commit(r) ==
    /\ runs[r].pc = "loaded"
    /\ users' = Save(users, runs[r].user_id, runs[r].profile)
    /\ runs' = [runs EXCEPT ![r] = [@ EXCEPT !.pc = "done",
                                             !.result = Return(runs[r].profile)]]
    /\ UNCHANGED <<router_provider, cls, node, clock, ticks, raw_logs, fn>>

\* the caller takes the result of the call; a call is made once
RunReturn(r) ==
    /\ runs[r].pc = "done"
    /\ runs' = [runs EXCEPT ![r] = [IdleRun EXCEPT !.pc = "returned"]]
    /\ UNCHANGED <<router_provider, cls, node, clock, ticks, users, raw_logs, fn>>

(***************************************************************************)
(* UserProfiler.generate_context_summary.  The summary is the list of its  *)
(* lines, which "\n".join makes one string; a line is its fixed phrase     *)
(* (named by its kind) and the values formatted into it.  An absent        *)
(* profile is SqlNull.                                                     *)
(***************************************************************************)
NoSummary == [is_none |-> TRUE, lines |-> <<>>]

Summary(lines) == [is_none |-> FALSE, lines |-> lines]

\* dict.get(key, default)
GetOr(dict, key, default) == IF key \in DOMAIN dict THEN dict[key] ELSE default

Line(kind, values) == [kind |-> kind, values |-> values]

\* a slice that keeps the whole list
TakeAll(s, n) == s

\* s[:n]
Take(s, n) == SubSeq(s, 1, Min(Len(s), n))

\* trend_labels.get(trend, trend)
TrendLabel(trend) ==
    IF trend \in {"more_negative", "more_positive", "fatigue_increasing"}
    THEN <<"label of", trend>> ELSE <<trend>>

\* the topics of the map whose dominant emotion is among the given ones
TopicsWith(topic_map, emotions) ==
    LET Test(info) == GetOr(info, "dominant_emotion", None) \in emotions
        selected == SelectSeq(topic_map, Test)
    IN  [i \in DOMAIN selected |-> selected[i].topic]

\* the lines of the summary of a profile
SummaryParts(profile) ==
    LET emotions == GetOr(profile, "emotion_trends", <<>>)
        top_emotions == GetOr(emotions, "top_emotions", <<>>)
        top3 == Take(top_emotions, 3)
        trend == GetOr(emotions, "recent_trend", None)
        topic_map == GetOr(profile, "topic_emotion_map", <<>>)
        stress_topics == TopicsWith(topic_map, {"frustrated", "anxious", "angry"})
        comfort_topics == TopicsWith(topic_map, {"achieved", "excited", "relieved"})
        signals == GetOr(profile, "signals", <<>>)
    IN  (IF top_emotions # <<>>
         THEN <<Line("emotions",
                     <<GetOr(profile, "period_days", 14),
                       [i \in DOMAIN top3 |-> <<top3[i].emotion, top3[i].count>>]>>)>>
         ELSE <<>>)
        \o (IF trend # None /\ trend # "stable"
            THEN <<Line("trend", TrendLabel(trend))>> ELSE <<>>)
        \o (IF stress_topics # <<>>
            THEN <<Line("stress", Take(stress_topics, 3))>> ELSE <<>>)
        \o (IF comfort_topics # <<>>
            THEN <<Line("comfort", Take(comfort_topics, 3))>> ELSE <<>>)
        \o [i \in DOMAIN signals |-> Line("signal", signals[i].description)]

\* a summary made whatever the number of logs
SummaryNoMinimum(profile) ==
    IF profile = SqlNull \/ profile = <<>> THEN NoSummary
    ELSE IF SummaryParts(profile) = <<>> THEN NoSummary
    ELSE Summary(SummaryParts(profile))

generate_context_summary(profile) ==
    IF profile = SqlNull \/ profile = <<>> THEN NoSummary
    ELSE IF GetOr(profile, "log_count", 0) < 3 THEN NoSummary
    ELSE IF SummaryParts(profile) = <<>> THEN NoSummary
    ELSE Summary(SummaryParts(profile))

(***************************************************************************)
(* Calls of single functions on given inputs.  fn holds the last completed *)
(* call: its arguments and what it returned.                               *)
(***************************************************************************)
IdleFn == [pc |-> "idle", op |-> "none", args |-> <<>>, result |-> <<>>]

FnCall(op, args, result) ==
    [pc |-> "done", op |-> op, args |-> args, result |-> result]

\* the caller takes the result of the call
FnReturn ==
    /\ fn.pc = "done"
    /\ fn' = IdleFn
    /\ UNCHANGED <<router_provider, cls, node, clock, ticks, users, raw_logs, runs>>

\* the profiles build_profile can return on a table at a time
ProfilesOf(table, user_id, now) ==
    {build_profile(fetched, now) : fetched \in QueryResults(table, user_id, now)}

\* the k-th entry of a user's history: every other one tells of fatigue
HistoryRow(user_id, created_at, k) ==
    IF k % 2 = 1
    THEN RawLog(user_id, created_at, TRUE, Filler \o fatigue_keywords[5],
                <<"frustrated", "anxious">>, <<"work">>, "state")
    ELSE RawLog(user_id, created_at, TRUE, Filler,
                <<"achieved">>, <<"work", "family">>, "log")

\* the numbers of entries of "u1" inside the window: a few, or about the
\* limit of the query
HistorySizes ==
    (0..MaxFew) \cup ((QueryLimit - MaxNear)..(QueryLimit + MaxNear))

\* the oldest two entries share their time (tied), or the oldest entry lies
\* exactly on the cutoff (edge)
HistoryShapes == {"plain", "tied", "edge"}

\* the entries the query has to leave out
Strays == {"unanalyzed", "aged", "other"}

\* the hour of the query
QueryNow == Days(_RECENT_DAYS) + Days(_TREND_DAYS)

\* the raw_logs table, in the order of insertion: the aged entry, the
\* history of "u1" at one entry an hour up to the last hour, then an
\* unanalyzed entry and an entry of "u2"
QueryTable(size, shape, strays, now) ==
    (IF "aged" \in strays
     THEN <<HistoryRow("u1", now - Days(_RECENT_DAYS) - 1, 1)>> ELSE <<>>)
    \o [k \in 1..size |->
           HistoryRow("u1",
                      IF k = 1 /\ shape = "tied" /\ size > 1
                      THEN now - size + 1
                      ELSE IF k = 1 /\ shape = "edge"
                      THEN now - Days(_RECENT_DAYS)
                      ELSE now - size + k - 1,
                      k)]
    \o (IF "unanalyzed" \in strays
        THEN <<RawLog("u1", now - 1, FALSE, Filler, <<>>, <<>>, None)>> ELSE <<>>)
    \o (IF "other" \in strays
        THEN <<HistoryRow("u2", now - 2, 1)>> ELSE <<>>)

\* build_profile on a table
QueryProfile ==
    /\ fn.pc = "idle"
    /\ \E size \in HistorySizes, shape \in HistoryShapes,
          strays \in SUBSET Strays, user_id \in Users :
         LET table == QueryTable(size, shape, strays, QueryNow)
         IN  fn' = FnCall("build_profile",
                          [table |-> table, user_id |-> user_id, now |-> QueryNow],
                          ProfilesOf(table, user_id, QueryNow))
    /\ UNCHANGED <<router_provider, cls, node, clock, ticks, users, raw_logs, runs>>

(***************************************************************************)
(* Calls of _detect_emotion_trend on the counters of the two windows.      *)
(***************************************************************************)
\* a fatigue emotion, a negative emotion that is no fatigue, a positive one
TrendEmotions == <<"frustrated", "angry", "achieved">>

\* the counter holding the emotions with the given positive counts
CounterFrom(counts) ==
    LET Counted(entry) == entry[2] > 0
    IN  SelectSeq([i \in DOMAIN TrendEmotions |-> <<TrendEmotions[i], counts[i]>>],
                  Counted)

\* the counters of a window with at most MaxTotal emotions
WindowCounters ==
    {CounterFrom(counts) : counts \in
        {c \in [DOMAIN TrendEmotions -> 0..MaxTotal] : c[1] + c[2] + c[3] <= MaxTotal}}

DetectTrend ==
    /\ fn.pc = "idle"
    /\ \E recent \in WindowCounters, older \in WindowCounters :
         fn' = FnCall("_detect_emotion_trend",
                      [recent |-> recent, older |-> older],
                      _detect_emotion_trend(recent, older))
    /\ UNCHANGED <<router_provider, cls, node, clock, ticks, users, raw_logs, runs>>

(***************************************************************************)
(* Calls of _aggregate_topic_emotions on lists of logs.                    *)
(***************************************************************************)
TopicLists == {<<>>, <<"work">>, <<"work", "family">>}
EmotionLists == {<<>>, <<"frustrated">>, <<"achieved">>, <<"frustrated", "achieved">>}

\* the logs as far as the aggregation of topics reads them
TopicLogs ==
    {RawLog("u1", 0, TRUE, Filler, emotions, topics, None) :
        emotions \in EmotionLists, topics \in TopicLists}

\* the lists of at most MaxEntries logs
LogLists(samples) == UNION {[1..n -> samples] : n \in 0..MaxEntries}

AggregateTopics ==
    /\ fn.pc = "idle"
    /\ \E logs \in LogLists(TopicLogs) :
         fn' = FnCall("_aggregate_topic_emotions", [logs |-> logs],
                      _aggregate_topic_emotions(logs))
    /\ UNCHANGED <<router_provider, cls, node, clock, ticks, users, raw_logs, runs>>

(***************************************************************************)
(* Calls of _aggregate_posting_pattern on lists of logs.                   *)
(***************************************************************************)
\* a fetched list, newest first: recent_count logs an hour apart down to the
\* trend cutoff, then older_count logs an hour apart before it
PostingLogs(recent_count, older_count, now) ==
    [i \in 1..(recent_count + older_count) |->
        RawLog("u1", now - Days(_TREND_DAYS) + recent_count - i,
               TRUE, Filler, <<>>, <<>>, None)]

AggregatePosting ==
    /\ fn.pc = "idle"
    /\ \E recent_count \in 0..MaxPosts, older_count \in 0..MaxPosts :
         /\ recent_count + older_count <= MaxPosts
         /\ LET logs == PostingLogs(recent_count, older_count, QueryNow)
            IN  fn' = FnCall("_aggregate_posting_pattern",
                             [logs |-> logs, now |-> QueryNow],
                             _aggregate_posting_pattern(logs, QueryNow))
    /\ UNCHANGED <<router_provider, cls, node, clock, ticks, users, raw_logs, runs>>

(***************************************************************************)
(* Calls of the aggregation of build_profile on fetched lists.             *)
(***************************************************************************)
\* the emotions of the entries of a window
Moods == {<<>>, <<"frustrated">>, <<"angry">>, <<"achieved">>}

\* a fetched list, newest first: recent_count entries of the last 7 days,
\* then older_count entries before them.  The first `fatigued` entries tell
\* of fatigue (with one keyword or two), the first `states` and the last
\* `late_states` entries carry the state intent, the others other_intent.
Fetched(recent_count, older_count, recent_mood, older_mood, fatigued, keywords, states, late_states, other_intent, now) ==
    [i \in 1..(recent_count + older_count) |->
        RawLog("u1",
               IF i <= recent_count THEN now - i ELSE now - Days(_TREND_DAYS) - i,
               TRUE,
               IF i > fatigued THEN Filler
               ELSE IF keywords = 1 THEN Filler \o fatigue_keywords[(i % 6) + 1]
               ELSE fatigue_keywords[(i % 6) + 1] \o Filler \o fatigue_keywords[1],
               IF i <= recent_count THEN recent_mood ELSE older_mood,
               <<"work">>,
               IF i <= states \/ i > recent_count + older_count - late_states
               THEN "state" ELSE other_intent)]

\* lists around the threshold of the fatigue rule
FatigueLists ==
    {Fetched(fatigued + plain, 0, <<>>, <<>>, fatigued, keywords, 0, 0, "log", QueryNow) :
        fatigued \in 0..MaxFatigued, plain \in 1..MaxPlain, keywords \in {1, 2}}

\* lists around the threshold and the window of the state rule
StateLists ==
    {Fetched(states + others, 0, <<>>, <<>>, 0, 1, states, late_states, other_intent, QueryNow) :
        states \in 0..MaxStates, others \in 0..MaxOthers,
        late_states \in 0..MaxBeyond, other_intent \in {None, "log"}}
    \ {<<>>}

\* lists on which any of the four rules applies or not
MixedLists ==
    {Fetched(counts[1], counts[2], recent_mood, older_mood, fatigued, 1, states, 0, "log", QueryNow) :
        counts \in {<<4, 10>>, <<10, 4>>, <<7, 7>>},
        recent_mood \in Moods, older_mood \in Moods,
        fatigued \in {0, 5}, states \in {0, 10}}

\* the aggregation of a fetched list (build_profile past its query)
AggregateFetched ==
    /\ fn.pc = "idle"
    /\ \E logs \in FatigueLists \cup StateLists \cup MixedLists :
         fn' = FnCall("aggregate", [logs |-> logs, now |-> QueryNow],
                      build_profile(logs, QueryNow))
    /\ UNCHANGED <<router_provider, cls, node, clock, ticks, users, raw_logs, runs>>

(***************************************************************************)
(* Calls of build_profile past its query on lists whose recent or older    *)
(* bucket holds few or no emotions.                                        *)
(***************************************************************************)
\* how many entries of a bucket carry a fatigue emotion, a negative emotion
\* that is no fatigue, a positive one
BucketCounts(most) ==
    {c \in [DOMAIN TrendEmotions -> 0..most] : c[1] + c[2] + c[3] <= most}

\* the emotions of the i-th entry of a bucket with the given counts
BucketEmotions(counts, i) ==
    IF i <= counts[1] THEN <<TrendEmotions[1]>>
    ELSE IF i <= counts[1] + counts[2] THEN <<TrendEmotions[2]>>
    ELSE IF i <= counts[1] + counts[2] + counts[3] THEN <<TrendEmotions[3]>>
    ELSE <<>>

\* a fetched list, newest first: the entries of the last 7 days, the last of
\* them created at the trend cutoff itself, then the entries before it;
\* `plain` entries of each bucket carry no emotion
BucketLogs(recent, older, plain, now) ==
    LET recent_count == recent[1] + recent[2] + recent[3] + plain
        older_count == older[1] + older[2] + older[3] + plain
    IN  [i \in 1..(recent_count + older_count) |->
            RawLog("u1",
                   IF i < recent_count THEN now - i
                   ELSE IF i = recent_count THEN now - Days(_TREND_DAYS)
                   ELSE now - Days(_TREND_DAYS) - (i - recent_count),
                   TRUE, Filler,
                   IF i <= recent_count THEN BucketEmotions(recent, i)
                   ELSE BucketEmotions(older, i - recent_count),
                   <<"work">>, "log")]

\* the non-empty lists of which one bucket holds at most MaxSparse emotions
BucketLists ==
    {BucketLogs(pair[1], pair[2], plain, QueryNow) :
        pair \in (BucketCounts(MaxBucket) \X BucketCounts(MaxSparse))
                    \cup (BucketCounts(MaxSparse) \X BucketCounts(MaxBucket)),
        plain \in {0, 1}}
    \ {<<>>}

AggregateBuckets ==
    /\ fn.pc = "idle"
    /\ \E logs \in BucketLists :
         fn' = FnCall("aggregate_buckets", [logs |-> logs, now |-> QueryNow],
                      build_profile(logs, QueryNow))
    /\ UNCHANGED <<router_provider, cls, node, clock, ticks, users, raw_logs, runs>>

(***************************************************************************)
(* Calls of generate_context_summary on an absent profile and on built     *)
(* profiles.                                                               *)
(***************************************************************************)
\* what the analysis can have found in an entry: nothing, four negative
\* emotions on four topics, a positive emotion on four other topics, a
\* neutral emotion on one topic
Findings ==
    { [emotions |-> <<>>, topics |-> <<>>],
      [emotions |-> <<"frustrated", "anxious", "angry", "confused">>,
       topics |-> <<"work", "boss", "money", "health">>],
      [emotions |-> <<"achieved">>,
       topics |-> <<"family", "hobby", "friends", "travel">>],
      [emotions |-> <<"neutral">>, topics |-> <<"weather">>] }

\* the fetched lists of at most MaxSummary entries, newest first, the first
\* recent_count of them of the last 7 days
SummaryLists ==
    UNION {{[i \in 1..n |->
               RawLog("u1",
                      IF i <= recent_count THEN QueryNow - i
                      ELSE QueryNow - Days(_TREND_DAYS) - i,
                      TRUE, Filler, found[i].emotions, found[i].topics, "log")] :
            found \in [1..n -> Findings], recent_count \in 0..n} : n \in 0..MaxSummary}

SummariseProfile ==
    /\ fn.pc = "idle"
    /\ \E logs \in SummaryLists \cup MixedLists, absent \in BOOLEAN :
         \E profile \in {IF absent THEN SqlNull ELSE build_profile(logs, QueryNow)} :
            fn' = FnCall("generate_context_summary", [profile |-> profile],
                         generate_context_summary(profile))
    /\ UNCHANGED <<router_provider, cls, node, clock, ticks, users, raw_logs, runs>>

(***************************************************************************)
(* Calls of _fallback_classify on texts holding keywords of several        *)
(* categories.                                                             *)
(***************************************************************************)
\* the chosen keywords of the list, one after the other
RECURSIVE Chosen(_, _, _)
Chosen(keywords, picks, k) ==
    IF k > MaxKeywords THEN <<>>
    ELSE (IF k \in picks THEN keywords[k] ELSE <<>>) \o Chosen(keywords, picks, k + 1)

\* a text for each choice among the first MaxKeywords keywords of every
\* category
SpreadTexts ==
    {Filler \o Chosen(KW_empathy, picks[1], 1) \o Chosen(KW_knowledge, picks[2], 1)
            \o Chosen(KW_deep_dive, picks[3], 1) \o Chosen(KW_brainstorm, picks[4], 1) :
        picks \in [1..4 -> SUBSET (1..MaxKeywords)]}

FallbackClassify ==
    /\ fn.pc = "idle"
    /\ \E input_text \in SpreadTexts :
         fn' = FnCall("_fallback_classify", [input_text |-> input_text],
                      _fallback_classify(input_text))
    /\ UNCHANGED <<router_provider, cls, node, clock, ticks, users, raw_logs, runs>>

(***************************************************************************)
(* Properties of the intent router.                                        *)
(***************************************************************************)
FallbackPaths ==
    {"no_provider", "initialize_raised", "generate_json_raised", "parse_raised"}

PrimaryIntents == {CHAT, EMPATHY, KNOWLEDGE, DEEP_DIVE, BRAINSTORM}

ValidResult(r) ==
    /\ r.intent \in Intents
    /\ FracLE(<<0, 1>>, r.confidence)
    /\ FracLE(r.confidence, <<1, 1>>)

\* the number of keywords of a category occurring in a text
MatchCount ==
    [text \in Texts |->
        [intent \in DOMAIN _KEYWORD_MAP |->
            Cardinality({i \in DOMAIN _KEYWORD_MAP[intent] :
                            Contains(_KEYWORD_MAP[intent][i], text)})]]

Matches(intent, text) == MatchCount[text][intent]

NoKeyword(text) == \A intent \in DOMAIN _KEYWORD_MAP : Matches(intent, text) = 0

NoUsableCategory(json) ==
    /\ json.kind = "dict"
    /\ \/ json.intent.t # "str"
       \/ Lower(json.intent.s) \notin DOMAIN intent_map

\* C2 as stated: on the LLM path, when generate_json raises or the map has
\* no usable category, classify returns chat with confidence 0.5.
C2_ChatHalfOnBadResponse ==
    (/\ cls.pc = "done"
     /\ \/ cls.path = "generate_json_raised"
        \/ cls.path \in {"parsed", "parse_raised"} /\ NoUsableCategory(cls.json))
    => /\ ~cls.outcome.raised
       /\ cls.outcome.value = ClassificationResult(CHAT, <<1, 2>>)

\* C2 amended: on the LLM path classify never raises; when generate_json
\* raises, or the map's intent is no string, the result is the keyword
\* fallback result of the input (chat with 0.3 when no keyword occurs); when
\* the map has no intent key or an unknown intent string, the result is chat,
\* with confidence 0.5 when the map has no numeric confidence either.
C2_FallbackOrChatOnBadResponse ==
    cls.pc = "done" /\ cls.path \in {"generate_json_raised", "parse_raised", "parsed"} =>
        /\ ~cls.outcome.raised
        /\ ValidResult(cls.outcome.value)
        /\ (cls.path = "generate_json_raised"
              \/ (cls.json.kind = "dict" /\ cls.json.intent.t \notin {"str", "missing"}))
           => /\ cls.outcome.value = FallbackOf[cls.input_text]
              /\ NoKeyword(cls.input_text) =>
                     cls.outcome.value = ClassificationResult(CHAT, <<3, 10>>)
        /\ (cls.json.kind = "dict" /\ cls.json.intent.t \in {"str", "missing"}
              /\ NoUsableCategory(cls.json))
           => /\ cls.path = "parsed"
              /\ cls.outcome.value.intent = CHAT
              /\ cls.json.confidence.t \notin {"num", "bool"} =>
                     cls.outcome.value.confidence = <<1, 2>>

C2_Witness ==
    /\ cls.pc = "done"
    /\ cls.path = "generate_json_raised"
    /\ ~cls.outcome.raised
    /\ cls.outcome.value = ClassificationResult(KNOWLEDGE, <<7, 10>>)

\* the category a string names, case-insensitively
KnownCategory(s) == Lower(s) \in DOMAIN intent_map

\* C3: for every map generate_json returns, the result has one of the five
\* primary categories as its intent, never state: a known category name
\* gives that category (case-insensitively), an unknown or missing intent
\* value (a non-string value included) gives chat; the confidence is the
\* returned number clamped to [0,1], and 0.5 when it is absent or no number.
C3_ParsedMapResult ==
    cls.pc = "done" /\ cls.json.kind = "dict" =>
        /\ ~cls.outcome.raised
        /\ cls.outcome.value.intent \in PrimaryIntents
        /\ cls.json.intent.t = "str" /\ KnownCategory(cls.json.intent.s) =>
               cls.outcome.value.intent = intent_map[Lower(cls.json.intent.s)]
        /\ ~(cls.json.intent.t = "str" /\ KnownCategory(cls.json.intent.s)) =>
               cls.outcome.value.intent = CHAT
        /\ cls.json.confidence.t = "num" =>
               LET x == Frac(cls.json.confidence.n, cls.json.confidence.d)
               IN  cls.outcome.value.confidence =
                       IF FracLE(x, <<0, 1>>) THEN <<0, 1>>
                       ELSE IF FracLE(<<1, 1>>, x) THEN <<1, 1>> ELSE x
        /\ cls.json.confidence.t \in {"missing", "str", "null"} =>
               cls.outcome.value.confidence = <<1, 2>>

\* C4: fallback classification of a text in which no keyword of any
\* category occurs returns chat with confidence 0.3.
C4_NoKeywordChat ==
    cls.pc = "done" /\ cls.path \in FallbackPaths /\ NoKeyword(cls.input_text) =>
        /\ ~cls.outcome.raised
        /\ cls.outcome.value = ClassificationResult(CHAT, <<3, 10>>)

C4_Witness ==
    /\ cls.pc = "done"
    /\ cls.path = "no_provider"
    /\ cls.input_text = Filler \o Filler
    /\ cls.outcome.value = ClassificationResult(CHAT, <<3, 10>>)

\* the position of an intent in the enumeration
IndexOf(intent) ==
    CHOOSE i \in DOMAIN ConversationIntent : ConversationIntent[i] = intent

\* C5: when some keyword occurs, fallback classification returns the
\* category with the most keywords occurring in the text, the first in
\* enumeration order among equals, which is one of the four keyword
\* categories; the confidence is min(winning score / sum of the scores, 0.7),
\* and 0.7 when the keywords of one category only occur.
C5_HighestScoreWins ==
    cls.pc = "done" /\ cls.path \in FallbackPaths /\ ~NoKeyword(cls.input_text) =>
        LET r == cls.outcome.value
            m == [k \in DOMAIN _KEYWORD_MAP |-> Matches(k, cls.input_text)]
            total == m[EMPATHY] + m[KNOWLEDGE] + m[DEEP_DIVE] + m[BRAINSTORM]
        IN  /\ ~cls.outcome.raised
            /\ r.intent \in DOMAIN _KEYWORD_MAP
            /\ \A other \in DOMAIN _KEYWORD_MAP :
                   /\ m[other] <= m[r.intent]
                   /\ m[other] = m[r.intent] =>
                          IndexOf(r.intent) <= IndexOf(other)
            /\ r.confidence =
                   IF 10 * m[r.intent] >= 7 * total
                   THEN <<7, 10>>
                   ELSE Frac(m[r.intent], total)
            /\ m[r.intent] = total => r.confidence = <<7, 10>>

C5_Witness ==
    /\ cls.pc = "done"
    /\ cls.path = "initialize_raised"
    /\ Matches(DEEP_DIVE, cls.input_text) = 1
    /\ Matches(BRAINSTORM, cls.input_text) = 1
    /\ cls.outcome.value = ClassificationResult(DEEP_DIVE, <<1, 2>>)

(***************************************************************************)
(* Properties of the response nodes.                                       *)
(***************************************************************************)
\* the reply of a strategy when no client handle is obtainable
UnavailableReply(strategy, state) ==
    CASE strategy = "chat" ->
             run_chat_node(state, None, TRUE, Raise("none")).value.response
      [] strategy = "empathy" ->
             run_empathy_node(state, None, TRUE, Raise("none")).value.response
      [] strategy = "deep_dive" ->
             run_deep_dive_node(state, None, TRUE, Raise("none")).value.response
      [] strategy = "deep_research" ->
             run_deep_research_node(state, None, TRUE, Raise("none")).value.response

CannedReply(strategy) ==
    CASE strategy = "chat" -> CHAT_FALLBACK
      [] strategy = "empathy" -> EMPATHY_FALLBACK
      [] strategy = "deep_dive" -> DEEP_DIVE_FALLBACK
      [] strategy = "deep_research" -> RESEARCH_UNAVAILABLE

NodeFailed == node.path \in {"initialize_raised", "generate_text_raised"}

\* C6 as stated: every strategy returns a response and never raises; without
\* a client handle it returns its canned reply, and when initialize() or
\* generate_text raises it returns that same canned reply.
C6_SameCannedReplyOnFailure ==
    node.pc = "done" =>
        /\ ~node.outcome.raised
        /\ node.path = "no_provider" =>
               node.outcome.value.response = CannedReply(node.strategy)
        /\ NodeFailed =>
               node.outcome.value.response =
                   UnavailableReply(node.strategy, node.state)

\* C6 amended: every strategy returns a response and never raises; without a
\* client handle it returns its canned reply; when initialize() or
\* generate_text raises, Chat, Empathy and DeepDive return that same canned
\* reply, and DeepResearch returns another fixed reply, the one reporting an
\* error during the research.
C6_CannedReplyOnFailure ==
    node.pc = "done" =>
        /\ ~node.outcome.raised
        /\ node.path = "no_provider" =>
               node.outcome.value.response = CannedReply(node.strategy)
        /\ NodeFailed /\ node.strategy # "deep_research" =>
               node.outcome.value.response =
                   UnavailableReply(node.strategy, node.state)
        /\ NodeFailed /\ node.strategy = "deep_research" =>
               /\ node.outcome.value.response = RESEARCH_FAILED
               /\ node.outcome.value.response #
                      UnavailableReply(node.strategy, node.state)

C6_Witness ==
    /\ node.pc = "done"
    /\ node.strategy = "deep_research"
    /\ node.path = "generate_text_raised"
    /\ node.state.has_previous
    /\ node.outcome.value.response = RESEARCH_FAILED

(***************************************************************************)
(* Properties of the user profiler.                                        *)
(***************************************************************************)
\* the rows of the user that are analyzed and inside the 14-day window at t
Qualifying(user_id, t) ==
    {i \in DOMAIN raw_logs : /\ raw_logs[i].user_id = user_id
                             /\ raw_logs[i].is_analyzed
                             /\ raw_logs[i].created_at >= t - 14 * 24}

\* the canonical empty profile
CanonicalEmpty(t) ==
    [updated_at |-> t, log_count |-> 0, period_days |-> 14,
     emotion_trends |-> <<>>, topic_emotion_map |-> <<>>,
     posting_pattern |-> <<>>, signals |-> <<>>]

\* run r goes from build_profile's call to its return in this step
Builds(r) == runs[r].pc = "idle" /\ runs'[r].pc = "built"

\* run r returns from build_and_save in this step
Finishes(r) == runs[r].pc \in {"built", "loaded"} /\ runs'[r].pc = "done"

\* run r commits in this step
Commits(r) == runs[r].pc = "loaded" /\ runs'[r].pc = "done"

\* C7: build_profile for a user with no analyzed entry inside the 14-day
\* window returns the canonical empty profile, never a null value:
\* log_count 0, period_days 14, and emotion_trends, topic_emotion_map,
\* posting_pattern and signals all empty.
C7_EmptyProfileWhenNoEntries ==
    [][\A r \in Runs :
          (Builds(r) /\ Qualifying(runs'[r].user_id, clock) = {})
              => /\ runs'[r].profile # SqlNull
                 /\ runs'[r].profile = CanonicalEmpty(clock)]_vars

\* a build returned the empty profile for a user whose only analyzed entry
\* has left the window
C7_Witness ==
    \E r \in Runs :
        /\ runs[r].pc = "built"
        /\ runs[r].profile = CanonicalEmpty(clock)
        /\ \E i \in DOMAIN raw_logs :
              /\ raw_logs[i].user_id = runs[r].user_id
              /\ raw_logs[i].is_analyzed
              /\ raw_logs[i].created_at < clock - 14 * 24

\* C8, as stated: a build_and_save run that found no qualifying entry
\* leaves the persisted profiles as they were.
C8_NoWriteWhenEmpty ==
    [][\A r \in Runs :
          (Finishes(r) /\ runs[r].profile.log_count = 0)
              => users' = users]_vars

\* C8, as the code has it: a build_and_save run that found no qualifying
\* entry returns the empty profile, and writes it over whatever was stored
\* when the user record exists; it writes nothing only when there is no
\* user record.
C8_EmptyProfileIsWritten ==
    [][\A r \in Runs :
          (Finishes(r) /\ runs[r].profile.log_count = 0)
              => /\ runs'[r].result = Return(CanonicalEmpty(runs[r].profile.updated_at))
                 /\ IF runs[r].user_id \in DOMAIN users
                    THEN users' = [users EXCEPT ![runs[r].user_id] =
                                      [profile_data |->
                                          [CanonicalEmpty(runs[r].profile.updated_at)
                                              EXCEPT !.topic_emotion_map = {}]]]
                    ELSE users' = users]_vars

\* a run has replaced a stored profile of one entry by the empty profile
C8_Witness ==
    \E r \in Runs :
        /\ runs[r].pc = "done"
        /\ runs[r].profile.log_count = 0
        /\ runs[r].user.found
        /\ runs[r].user.profile_data # SqlNull
        /\ runs[r].user.profile_data.log_count > 0
        /\ users[runs[r].user_id].profile_data.log_count = 0
        /\ users[runs[r].user_id].profile_data.updated_at
               = runs[r].profile.updated_at

\* C9: build_and_save replaces the profile wholesale: with a user record,
\* the persisted profile is the returned profile afterwards and nothing of
\* the profile stored before remains; without a user record the built
\* profile is still returned, nothing is raised and the store is unchanged.
C9_WholesaleReplace ==
    [][\A r \in Runs :
          Finishes(r)
              => /\ ~runs'[r].result.raised
                 /\ runs'[r].result.value = runs[r].profile
                 /\ IF runs[r].user_id \in DOMAIN users
                    THEN /\ users'[runs[r].user_id].profile_data
                                = Jsonb(runs'[r].result.value)
                         /\ \A other \in DOMAIN users \ {runs[r].user_id} :
                                users'[other] = users[other]
                    ELSE users' = users]_vars

\* a run has written its profile of entries into the record of its user,
\* and a run for an id without a user record has returned its profile
C9_Witness ==
    /\ \E r \in Runs :
          /\ runs[r].pc = "done"
          /\ runs[r].user.found
          /\ runs[r].profile.log_count > 0
          /\ runs[r].user.profile_data # Jsonb(runs[r].profile)
          /\ users[runs[r].user_id].profile_data = Jsonb(runs[r].profile)
    /\ \E r \in Runs :
          /\ runs[r].pc = "done"
          /\ runs[r].user_id \notin DOMAIN users
          /\ ~runs[r].user.found
          /\ runs[r].result = Return(runs[r].profile)

\* C10: the persisted profile of a user is the profile of the run for that
\* user that committed last: every commit of a run writes that run's
\* profile, also over a profile built later, and a user's persisted profile
\* changes only by the commit of a run for that user.
C10_LastWriterWins ==
    [][/\ \A r \in Runs :
              Commits(r)
                  => users'[runs[r].user_id].profile_data = Jsonb(runs[r].profile)
       /\ \A user_id \in DOMAIN users :
              users'[user_id] # users[user_id]
                  => \E r \in Runs : /\ Commits(r)
                                     /\ runs[r].user_id = user_id
                                     /\ users'[user_id].profile_data
                                            = Jsonb(runs[r].profile)]_vars

\* a run that read one entry has committed over the profile of a run that
\* read two entries at a later time
C10_Witness ==
    \E r \in Runs :
        /\ runs[r].pc = "done"
        /\ runs[r].user.found
        /\ runs[r].user.profile_data # SqlNull
        /\ runs[r].user.profile_data.log_count > runs[r].profile.log_count
        /\ runs[r].user.profile_data.updated_at > runs[r].profile.updated_at
        /\ runs[r].profile.log_count > 0
        /\ users[runs[r].user_id].profile_data = Jsonb(runs[r].profile)
        /\ \E other \in Runs \ {r} :
              /\ runs[other].pc = "done"
              /\ runs[other].user_id = runs[r].user_id
              /\ Jsonb(runs[other].profile) = runs[r].user.profile_data

(***************************************************************************)
(* Properties of the profile aggregation.                                  *)
(***************************************************************************)
\* the rows of the table that are the user's own, analyzed and not older
\* than 14 days
OwnRecent(table, user_id, now) ==
    {i \in DOMAIN table : /\ table[i].user_id = user_id
                          /\ table[i].is_analyzed
                          /\ table[i].created_at >= now - 14 * 24}

\* of these, the rows with fewer than 200 newer ones
Newest200(table, user_id, now) ==
    LET own == OwnRecent(table, user_id, now)
    IN  {i \in own :
            Cardinality({j \in own : table[j].created_at > table[i].created_at})
                < 200}

\* the table without the rows outside the set
Restrict(table, ids) ==
    LET Kept(i) == i \in ids
        kept == SelectSeq([i \in DOMAIN table |-> i], Kept)
    IN  [k \in DOMAIN kept |-> table[kept[k]]]

\* C11: the profile build_profile returns is determined by the user's own
\* analyzed entries of the last 14 days that are among the 200 newest: the
\* table without every other row (unanalyzed, older, of another user,
\* beyond the 200 newest) gives the same profiles, and log_count is the
\* number of these entries, at most 200.
C11_OnlyOwnRecentAnalyzed ==
    (fn.pc = "done" /\ fn.op = "build_profile")
        => LET table == fn.args.table
               user_id == fn.args.user_id
               now == fn.args.now
               core == Restrict(table, Newest200(table, user_id, now))
           IN  /\ fn.result = ProfilesOf(core, user_id, now)
               /\ \A profile \in fn.result :
                     /\ profile.log_count
                            = Min(Cardinality(OwnRecent(table, user_id, now)), 200)
                     /\ profile.log_count <= 200

\* build_profile has run on a table holding 201 qualifying entries of the
\* user, an unanalyzed one, one older than the window and one of another
\* user, and has counted 200
C11_Witness ==
    /\ fn.pc = "done"
    /\ fn.op = "build_profile"
    /\ Cardinality(OwnRecent(fn.args.table, fn.args.user_id, fn.args.now)) = 201
    /\ Len(fn.args.table) = 204
    /\ \E i \in DOMAIN fn.args.table : ~fn.args.table[i].is_analyzed
    /\ \E i \in DOMAIN fn.args.table : fn.args.table[i].user_id # fn.args.user_id
    /\ \E i \in DOMAIN fn.args.table :
          fn.args.table[i].created_at < fn.args.now - 14 * 24
    /\ \A profile \in fn.result : profile.log_count = 200

\* the label the priority rule gives on the ratios as rational numbers:
\* a/b > c/d + p/q is compared over the common denominator b*d*q
ExactTrend(recent, older) ==
    LET recent_total == IF CounterTotal(recent) = 0 THEN 1 ELSE CounterTotal(recent)
        older_total == IF CounterTotal(older) = 0 THEN 1 ELSE CounterTotal(older)
        recent_neg == CountIn(recent, negative)
        older_neg == CountIn(older, negative)
        recent_fat == CountIn(recent, fatigue)
        older_fat == CountIn(older, fatigue)
    IN  IF 5 * recent_fat * older_total
               > 5 * older_fat * recent_total + recent_total * older_total
        THEN "fatigue_increasing"
        ELSE IF 20 * recent_neg * older_total
                    > 20 * older_neg * recent_total + 3 * recent_total * older_total
        THEN "more_negative"
        ELSE IF 20 * recent_neg * older_total
                    < 20 * older_neg * recent_total - 3 * recent_total * older_total
        THEN "more_positive"
        ELSE "stable"

\* C12: the trend label is fatigue_increasing if the recent fatigue ratio
\* exceeds the older one by more than 0.20, otherwise more_negative if the
\* recent negative ratio exceeds the older one by more than 0.15, otherwise
\* more_positive if it is below the older one by more than 0.15, otherwise
\* stable; a difference of exactly 0.20 does not give fatigue_increasing.
C12_TrendByExactRatios ==
    (fn.pc = "done" /\ fn.op = "_detect_emotion_trend")
        => fn.result = ExactTrend(fn.args.recent, fn.args.older)

\* the number of times the emotion stands with the topic in the entries
CoOccurrences(logs, topic, emotion) ==
    Cardinality({place \in (DOMAIN logs) \X (1..2) \X (1..2) :
                    LET log == logs[place[1]]
                    IN  /\ place[2] \in DOMAIN log.topics
                        /\ place[3] \in DOMAIN log.emotions
                        /\ log.topics[place[2]] = topic
                        /\ log.emotions[place[3]] = emotion})

TopicTotal(logs, topic) ==
    CoOccurrences(logs, topic, "frustrated") + CoOccurrences(logs, topic, "achieved")

\* C13: the topic-emotion map holds a topic exactly when its (topic,
\* emotion) co-occurrences over all entries number at least 2; count is the
\* sum of the distribution, the distribution holds exactly the
\* co-occurrence counts per emotion, and no emotion of the topic has a
\* higher count than the dominant one.
C13_TopicMapThreshold ==
    (fn.pc = "done" /\ fn.op = "_aggregate_topic_emotions")
        => LET logs == fn.args.logs
               map == fn.result
           IN  /\ \A topic \in {"work", "family"} :
                     Cardinality({i \in DOMAIN map : map[i].topic = topic})
                         = IF TopicTotal(logs, topic) >= 2 THEN 1 ELSE 0
               /\ \A i \in DOMAIN map :
                     LET entry == map[i]
                     IN  /\ entry.count = CounterTotal(entry.distribution)
                         /\ \A emotion \in {"frustrated", "achieved"} :
                               CounterGet(entry.distribution, emotion)
                                   = CoOccurrences(logs, entry.topic, emotion)
                         /\ \A j \in DOMAIN entry.distribution :
                               /\ entry.distribution[j][1] \in {"frustrated", "achieved"}
                               /\ entry.distribution[j][2] > 0
                               /\ \A k \in DOMAIN entry.distribution :
                                     j # k => entry.distribution[j][1]
                                                  # entry.distribution[k][1]
                               /\ entry.distribution[j][2]
                                      <= CounterGet(entry.distribution,
                                                    entry.dominant_emotion)

\* the aggregation has kept a topic met with two emotions of equal count
\* and dropped a topic met with one emotion only
C13_Witness ==
    /\ fn.pc = "done"
    /\ fn.op = "_aggregate_topic_emotions"
    /\ Len(fn.result) = 1
    /\ fn.result[1].topic = "work"
    /\ fn.result[1].count = 2
    /\ Len(fn.result[1].distribution) = 2
    /\ TopicTotal(fn.args.logs, "family") = 1

\* the number of logs at or after now - 7 days (recent) or before it
CountWindow(logs, now, recent) ==
    Cardinality({i \in DOMAIN logs : (logs[i].created_at >= now - 7 * 24) = recent})

\* the label on the averages as rational numbers: with recentAvg =
\* recentCount / 7 and olderAvg = olderCount / 7, recentAvg < 0.5 * olderAvg
\* is 2 * recentCount < olderCount and recentAvg > 1.5 * olderAvg is
\* 2 * recentCount > 3 * olderCount
ExactFrequency(recentCount, olderCount) ==
    IF olderCount > 0 /\ 2 * recentCount < olderCount THEN "decreasing"
    ELSE IF olderCount > 0 /\ 2 * recentCount > 3 * olderCount THEN "increasing"
    ELSE "stable"

\* C14: the frequency-change label is decreasing only if olderAvg > 0 and
\* recentAvg < 0.5 * olderAvg, increasing only if olderAvg > 0 and
\* recentAvg > 1.5 * olderAvg, and stable otherwise; with no entry older
\* than the trend window it is stable.
C14_FrequencyByExactAverages ==
    (fn.pc = "done" /\ fn.op = "_aggregate_posting_pattern" /\ fn.args.logs # <<>>)
        => LET recentCount == CountWindow(fn.args.logs, fn.args.now, TRUE)
               olderCount == CountWindow(fn.args.logs, fn.args.now, FALSE)
           IN  /\ fn.result.frequency_change = ExactFrequency(recentCount, olderCount)
               /\ olderCount = 0 => fn.result.frequency_change = "stable"

Aggregated == fn.pc = "done" /\ fn.op = "aggregate"

\* the signals of the type in the profile
SignalsOf(profile, type) ==
    {i \in DOMAIN profile.signals : profile.signals[i].type = type}

\* the text holds one of the fatigue keywords
TellsOfFatigue(content) ==
    \E k \in DOMAIN fatigue_keywords, i \in DOMAIN content :
        /\ i + Len(fatigue_keywords[k]) - 1 <= Len(content)
        /\ \A j \in DOMAIN fatigue_keywords[k] :
              content[i + j - 1] = fatigue_keywords[k][j]

FatiguedEntries(logs) == {i \in DOMAIN logs : TellsOfFatigue(logs[i].content)}

\* C15: the signals hold a fatigue_repetition signal, of severity warning,
\* exactly when at least 5 of the fetched entries contain a fatigue keyword,
\* an entry with several keywords counting once.
C15_FatigueRepetition ==
    Aggregated
        => LET found == SignalsOf(fn.result, "fatigue_repetition")
           IN  /\ Cardinality(found)
                      = IF Cardinality(FatiguedEntries(fn.args.logs)) >= 5 THEN 1 ELSE 0
               /\ \A i \in found : fn.result.signals[i].severity = "warning"

\* a list of exactly 5 entries with two fatigue keywords each, and other
\* entries, has given the warning
C15_Witness ==
    /\ Aggregated
    /\ Cardinality(FatiguedEntries(fn.args.logs)) = 5
    /\ Len(fn.args.logs) > 5
    /\ \A i \in FatiguedEntries(fn.args.logs) :
          Cardinality({k \in DOMAIN fatigue_keywords :
                          Contains(fatigue_keywords[k], fn.args.logs[i].content)}) = 2
    /\ SignalsOf(fn.result, "fatigue_repetition") # {}

\* the rule a signal comes from
RuleOf(type) ==
    CASE type = "fatigue_repetition" -> 1
      [] type = "stress_increasing" -> 2
      [] type = "negativity_increasing" -> 2
      [] type = "posting_decrease" -> 3
      [] type = "state_dominant" -> 4
      [] OTHER -> 0

\* the severities of the signals of the type
SeveritiesOf(profile, type) ==
    {profile.signals[i].severity : i \in SignalsOf(profile, type)}

\* C16: the signals stand in the order fatigue repetition, stress or
\* negativity, posting decrease, state dominance, at most one per rule; a
\* warning stress signal is present exactly when the emotion trend label of
\* the profile is fatigue_increasing, an info negativity signal exactly when
\* it is more_negative, an info posting_decrease signal exactly when the
\* frequency-change label of the profile is decreasing.
C16_SignalRules ==
    Aggregated
        => LET profile == fn.result
               signals == profile.signals
               trend == profile.emotion_trends.recent_trend
               freq_change == profile.posting_pattern.frequency_change
           IN  /\ \A i \in DOMAIN signals : RuleOf(signals[i].type) \in 1..4
               /\ \A i, j \in DOMAIN signals :
                     i < j => RuleOf(signals[i].type) < RuleOf(signals[j].type)
               /\ SignalsOf(profile, "stress_increasing") # {}
                     <=> trend = "fatigue_increasing"
               /\ SeveritiesOf(profile, "stress_increasing") \subseteq {"warning"}
               /\ SignalsOf(profile, "negativity_increasing") # {}
                     <=> trend = "more_negative"
               /\ SeveritiesOf(profile, "negativity_increasing") \subseteq {"info"}
               /\ SignalsOf(profile, "posting_decrease") # {}
                     <=> freq_change = "decreasing"
               /\ SeveritiesOf(profile, "posting_decrease") \subseteq {"info"}

\* all four rules have applied to one list: the signals are the fatigue
\* warning, the stress warning, the posting decrease and the state dominance
C16_Witness ==
    /\ Aggregated
    /\ [i \in DOMAIN fn.result.signals |-> fn.result.signals[i].type]
           = <<"fatigue_repetition", "stress_increasing",
               "posting_decrease", "state_dominant">>
    /\ fn.result.emotion_trends.recent_trend = "fatigue_increasing"
    /\ fn.result.posting_pattern.frequency_change = "decreasing"

\* the entries with the state intent among the 20 most recent ones
RecentStates(logs) ==
    {i \in DOMAIN logs : i <= 20 /\ logs[i].intent = "state"}

\* C17: a state_dominant signal, of severity info, is present exactly when
\* at least 10 of the 20 most recent fetched entries (of all, when there are
\* fewer) carry the state intent; entries past the 20 most recent and
\* entries without intent do not count.
C17_StateDominant ==
    Aggregated
        => /\ Cardinality(SignalsOf(fn.result, "state_dominant"))
                  = IF Cardinality(RecentStates(fn.args.logs)) >= 10 THEN 1 ELSE 0
           /\ SeveritiesOf(fn.result, "state_dominant") \subseteq {"info"}

\* 9 of the 20 most recent entries carry the state intent, the others carry
\* none, and two entries past them carry it: no state_dominant signal
C17_Witness ==
    /\ Aggregated
    /\ Len(fn.args.logs) = 22
    /\ Cardinality(RecentStates(fn.args.logs)) = 9
    /\ \A i \in 1..20 : fn.args.logs[i].intent \in {"state", None}
    /\ fn.args.logs[21].intent = "state"
    /\ fn.args.logs[22].intent = "state"
    /\ SignalsOf(fn.result, "state_dominant") = {}

Summarised == fn.pc = "done" /\ fn.op = "generate_context_summary"

\* the topics of the profile whose dominant emotion is among the given ones
TopicsOfMood(profile, emotions) ==
    {profile.topic_emotion_map[i].topic :
        i \in {j \in DOMAIN profile.topic_emotion_map :
                  profile.topic_emotion_map[j].dominant_emotion \in emotions}}

\* the profile gives the summary a line to write
LineDue(profile) ==
    \/ profile.emotion_trends.top_emotions # <<>>
    \/ profile.emotion_trends.recent_trend # "stable"
    \/ TopicsOfMood(profile, {"frustrated", "anxious", "angry",
                              "achieved", "excited", "relieved"}) # {}
    \/ profile.signals # <<>>

\* C18 as stated: the summary is null for an absent profile and for
\* logCount < 3, and a non-null string for every profile with logCount of 3
\* or more in which at least one aggregate is non-empty.
C18_SummaryWheneverAggregate ==
    Summarised
        => LET profile == fn.args.profile
           IN  IF profile = SqlNull \/ profile.log_count < 3
               THEN fn.result.is_none
               ELSE (\/ profile.emotion_trends # <<>>
                     \/ profile.topic_emotion_map # <<>>
                     \/ profile.posting_pattern # <<>>
                     \/ profile.signals # <<>>) => ~fn.result.is_none

\* C18, amended: the summary is null for an absent profile and for
\* logCount < 3; for logCount of 3 or more it is null exactly when the
\* profile yields no line (no top emotion, a stable trend, no topic with a
\* stress or comfort emotion dominant, no signal), and otherwise a string of
\* one or more lines.
C18_SummaryNullOrLines ==
    Summarised
        => LET profile == fn.args.profile
           IN  IF profile = SqlNull \/ profile.log_count < 3
               THEN fn.result.is_none
               ELSE /\ fn.result.is_none <=> ~LineDue(profile)
                    /\ ~fn.result.is_none => Len(fn.result.lines) >= 1

\* a profile of 3 logs whose posting pattern is not empty has no summary
C18_Witness ==
    /\ Summarised
    /\ fn.args.profile # SqlNull
    /\ fn.args.profile.log_count >= 3
    /\ fn.args.profile.posting_pattern # <<>>
    /\ fn.args.profile.emotion_trends # <<>>
    /\ fn.result.is_none

\* the place of a kind of line in the summary
KindRank(kind) ==
    CASE kind = "emotions" -> 1
      [] kind = "trend" -> 2
      [] kind = "stress" -> 3
      [] kind = "comfort" -> 4
      [] kind = "signal" -> 5
      [] OTHER -> 0

\* the lines of the kind in the summary
LinesOf(summary, kind) ==
    LET OfKind(line) == line.kind = kind
    IN  SelectSeq(summary.lines, OfKind)

\* a line listing at most 3 of the topics, each once, if there is any topic
TopicLine(found, topics) ==
    /\ Len(found) = (IF topics = {} THEN 0 ELSE 1)
    /\ \A i \in DOMAIN found :
          /\ Len(found[i].values) = Min(3, Cardinality(topics))
          /\ \A k \in DOMAIN found[i].values : found[i].values[k] \in topics
          /\ \A k, l \in DOMAIN found[i].values :
                k # l => found[i].values[k] # found[i].values[l]

\* C19: for a profile with logCount of 3 or more the summary has, in this
\* order, a line with the first 3 top emotions and their counts if there are
\* top emotions, a trend line if the trend is not stable, a line with at
\* most 3 topics whose dominant emotion is frustrated, anxious or angry, a
\* line with at most 3 topics whose dominant emotion is achieved, excited or
\* relieved, and a line per signal in the order of the signals; it is null
\* when there is no line.
C19_SummaryLines ==
    (Summarised /\ fn.args.profile # SqlNull /\ fn.args.profile.log_count >= 3)
        => LET profile == fn.args.profile
               summary == fn.result
               top == profile.emotion_trends.top_emotions
               trend == profile.emotion_trends.recent_trend
           IN  /\ summary.is_none <=> summary.lines = <<>>
               /\ \A i \in DOMAIN summary.lines :
                     KindRank(summary.lines[i].kind) \in 1..5
               /\ \A i, j \in DOMAIN summary.lines :
                     i < j => \/ KindRank(summary.lines[i].kind)
                                    < KindRank(summary.lines[j].kind)
                              \/ /\ summary.lines[i].kind = "signal"
                                 /\ summary.lines[j].kind = "signal"
               /\ Len(LinesOf(summary, "emotions")) = (IF top = <<>> THEN 0 ELSE 1)
               /\ \A i \in DOMAIN LinesOf(summary, "emotions") :
                     LinesOf(summary, "emotions")[i].values[2]
                         = [k \in 1..Min(3, Len(top)) |-> <<top[k].emotion, top[k].count>>]
               /\ Len(LinesOf(summary, "trend")) = (IF trend = "stable" THEN 0 ELSE 1)
               /\ \A i \in DOMAIN LinesOf(summary, "trend") :
                     LinesOf(summary, "trend")[i].values[2] = trend
               /\ TopicLine(LinesOf(summary, "stress"),
                            TopicsOfMood(profile, {"frustrated", "anxious", "angry"}))
               /\ TopicLine(LinesOf(summary, "comfort"),
                            TopicsOfMood(profile, {"achieved", "excited", "relieved"}))
               /\ [i \in DOMAIN LinesOf(summary, "signal") |->
                      LinesOf(summary, "signal")[i].values]
                      = [i \in DOMAIN profile.signals |-> profile.signals[i].description]

\* a profile with 5 top emotions, a rising trend, 4 stress topics, 4 comfort
\* topics and a signal has the summary of all kinds of lines, in order, with
\* 3 emotions and 3 topics each
C19_Witness ==
    /\ Summarised
    /\ fn.args.profile # SqlNull
    /\ fn.args.profile.log_count >= 3
    /\ Len(fn.args.profile.emotion_trends.top_emotions) = 5
    /\ Cardinality(TopicsOfMood(fn.args.profile, {"frustrated", "anxious", "angry"})) = 4
    /\ Cardinality(TopicsOfMood(fn.args.profile, {"achieved", "excited", "relieved"})) = 4
    /\ fn.args.profile.signals # <<>>
    /\ [i \in 1..4 |-> fn.result.lines[i].kind]
           = <<"emotions", "trend", "stress", "comfort">>
    /\ Len(fn.result.lines) = 4 + Len(fn.args.profile.signals)
    /\ Len(fn.result.lines[1].values[2]) = 3
    /\ Len(fn.result.lines[3].values) = 3
    /\ Len(fn.result.lines[4].values) = 3

FellBack == fn.pc = "done" /\ fn.op = "_fallback_classify"

\* C20: the confidence of the fallback classification lies
\* between 0.3 and 0.7 for every input text.
C20_ConfidenceAtLeastFloor ==
    FellBack
        => /\ FracLE(<<3, 10>>, fn.result.confidence)
           /\ FracLE(fn.result.confidence, <<7, 10>>)

(***************************************************************************)
(* Statelessness of classify across calls.                                 *)
(***************************************************************************)
\* C21: a classify call made while no FAST client is obtainable returns the
\* keyword-fallback result, whatever earlier calls on the same classifier
\* did (in particular when an earlier call obtained a client handle).
C21_FallbackWheneverUnobtainable ==
    (cls.pc = "done" /\ ~cls.available)
        => cls.outcome = Return(FallbackOf[cls.input_text])

(***************************************************************************)
(* Buckets without emotions in the trend comparison.                       *)
(***************************************************************************)
BucketsAggregated == fn.pc = "done" /\ fn.op = "aggregate_buckets"

\* the emotion occurrences, among the given emotions, of the entries created
\* within the last 7 days (recent) or before
OccurrencesIn(logs, now, recent, emotions) ==
    Cardinality({place \in UNION {{<<i, j>> : j \in DOMAIN logs[i].emotions} :
                                     i \in DOMAIN logs} :
                    /\ (logs[place[1]].created_at >= now - 7 * 24) = recent
                    /\ logs[place[1]].emotions[place[2]] \in emotions})

AnyEmotion == {"frustrated", "angry", "anxious", "confused", "achieved", "excited", "relieved"}

\* C22: a bucket without emotion occurrences counts with ratios of 0.  When
\* the older bucket is empty the label is never more_positive and is
\* fatigue_increasing exactly when the recent fatigue ratio exceeds 0.20
\* (count * 5 > total), and then the warning stress signal is emitted; when
\* the recent bucket is empty the label is neither fatigue_increasing nor
\* more_negative; when both are empty the label is stable.
C22_EmptyBucketRatios ==
    BucketsAggregated
        => LET logs == fn.args.logs
               label == fn.result.emotion_trends.recent_trend
               recent_total == OccurrencesIn(logs, fn.args.now, TRUE, AnyEmotion)
               older_total == OccurrencesIn(logs, fn.args.now, FALSE, AnyEmotion)
               recent_fatigue == OccurrencesIn(logs, fn.args.now, TRUE, {"frustrated", "anxious"})
           IN  /\ older_total = 0
                     => /\ label # "more_positive"
                        /\ label = "fatigue_increasing"
                              <=> 5 * recent_fatigue > recent_total
                        /\ label = "fatigue_increasing"
                              => \E i \in DOMAIN fn.result.signals :
                                    /\ fn.result.signals[i].type = "stress_increasing"
                                    /\ fn.result.signals[i].severity = "warning"
               /\ recent_total = 0
                     => label \notin {"fatigue_increasing", "more_negative"}
               /\ (recent_total = 0 /\ older_total = 0) => label = "stable"

\* the older bucket is empty and exactly a fifth of the recent emotions are
\* fatigue: the label is not fatigue_increasing and no stress signal stands
C22_Witness ==
    /\ BucketsAggregated
    /\ OccurrencesIn(fn.args.logs, fn.args.now, FALSE, AnyEmotion) = 0
    /\ OccurrencesIn(fn.args.logs, fn.args.now, TRUE, AnyEmotion) = 5
    /\ OccurrencesIn(fn.args.logs, fn.args.now, TRUE, {"frustrated", "anxious"}) = 1
    /\ fn.result.emotion_trends.recent_trend # "fatigue_increasing"
    /\ SignalsOf(fn.result, "stress_increasing") = {}

Init ==
    /\ router_provider = None
    /\ cls = IdleCall
    /\ node = IdleNode
    /\ clock = 0
    /\ ticks = 0
    /\ users = [user_id \in Users |-> [profile_data |-> SqlNull]]
    /\ raw_logs = <<>>
    /\ runs = [r \in Runs |-> IdleRun]
    /\ fn = IdleFn

NextRouter ==
    \/ Classify
    \/ ClassifyReturn

SpecRouter == Init /\ [][NextRouter]_vars

NextNodes ==
    \/ RunChatNode
    \/ RunEmpathyNode
    \/ RunDeepDiveNode
    \/ RunDeepResearchNode
    \/ NodeReturn

SpecNodes == Init /\ [][NextNodes]_vars

NextProfiler ==
    \/ AddLog
    \/ Tick
    \/ \E r \in Runs : BuildProfile(r)
    \/ \E r \in Runs : GetUser(r)
    \/ \E r \in Runs : Commit(r)
    \/ \E r \in Runs : RunReturn(r)

SpecProfiler == Init /\ [][NextProfiler]_vars
NextQuery ==
    \/ QueryProfile
    \/ FnReturn

SpecQuery == Init /\ [][NextQuery]_vars

NextTrend ==
    \/ DetectTrend
    \/ FnReturn

SpecTrend == Init /\ [][NextTrend]_vars

NextTopics ==
    \/ AggregateTopics
    \/ FnReturn

SpecTopics == Init /\ [][NextTopics]_vars

NextPosting ==
    \/ AggregatePosting
    \/ FnReturn

SpecPosting == Init /\ [][NextPosting]_vars

NextSignals ==
    \/ AggregateFetched
    \/ FnReturn

SpecSignals == Init /\ [][NextSignals]_vars

NextSummary ==
    \/ SummariseProfile
    \/ FnReturn

SpecSummary == Init /\ [][NextSummary]_vars

NextFallback ==
    \/ FallbackClassify
    \/ FnReturn

SpecFallback == Init /\ [][NextFallback]_vars

NextBuckets ==
    \/ AggregateBuckets
    \/ FnReturn

SpecBuckets == Init /\ [][NextBuckets]_vars
====
